---------------------------- MODULE Spec2Model ----------------------------
(***************************************************************************)
(* Label-check: rule store, compliance checks, the analyze route (rule     *)
(* resolution, per-panel extraction, evaluation, persistence, rollback),   *)
(* the rule-generation importer and the pure helpers they use.             *)
(*                                                                         *)
(* The relational schema is schema.sql + migrations 002 and 003; the       *)
(* tables are sets of row records, the foreign keys and CHECK constraints  *)
(* are enforced by the operators that model INSERT / DELETE.               *)
(***************************************************************************)
EXTENDS Integers, Sequences, FiniteSets, TLC

VARIABLES
    rule_sets,          \* table rule_sets
    compliance_rules,   \* table compliance_rules
    compliance_checks,  \* table compliance_checks
    panel_uploads,      \* table panel_uploads
    check_results,      \* table check_results
    nextId,             \* per-table count of ids handed out (gen_random_uuid / crypto.randomUUID)
    run,                \* the in-flight POST /api/analyze requests
    imp,                \* the in-flight POST /api/rules/{id}/generate requests
    pure                \* input and output of the pure helper under examination

vars == <<rule_sets, compliance_rules, compliance_checks, panel_uploads,
          check_results, nextId, run, imp, pure>>

db == <<rule_sets, compliance_rules, compliance_checks, panel_uploads, check_results>>

\* SQL NULL / JavaScript undefined, one per column type: text, uuid, timestamp.
NULL == "NULL"
NoId == 0
NoTime == 0

(***************************************************************************)
(* Bounds of the model.                                                    *)
(***************************************************************************)
MaxRuleSets == 2     \* rule sets ever created
MaxRules    == 2     \* rules ever inserted
MaxChecks   == 1     \* checks ever created
MaxPanels   == 1     \* panels ever uploaded
MaxVerdicts == 2     \* length of the model's evaluation response
MaxGenRules == 2     \* length of the model's default-rule response
MaxCandidates == 2   \* candidate rules in one response of the extraction service
MaxImports  == 2     \* import requests made
MaxSummaryVerdicts == 3   \* length of a verdict list whose summary is computed alone

(***************************************************************************)
(* Users: u1 is an admin of acme.com, u2 an ordinary user of another org.  *)
(***************************************************************************)
Users == {"u1", "u2"}
Role(u) == IF u = "u1" THEN "admin" ELSE "user"
getEmailDomain(u) == IF u = "u1" THEN "acme.com" ELSE "other.org"

Statuses == {"pass", "warning", "fail"}
\* The analyze requests in flight: one, beside the store routes.
RunIds == {1}

(***************************************************************************)
(* SQL helpers.                                                            *)
(***************************************************************************)
RowById(table, id) == CHOOSE row \in table : row.id = id
HasId(table, id) == \E row \in table : row.id = id

\* verifyOrgOwnership: the rule set joined with its creator, filtered by the
\* caller's e-mail domain.
verifyOrgOwnership(ruleSetId, caller) ==
    \E rs \in rule_sets : rs.id = ruleSetId /\ getEmailDomain(rs.user_id) = getEmailDomain(caller)

\* Mutant of PanelsAfterCheckDelete: panel_uploads does not cascade.
PanelsKeptOnCheckDelete(ids) == panel_uploads

\* DELETE FROM compliance_checks WHERE id IN ids, with panel_uploads and
\* check_results ON DELETE CASCADE.
ChecksAfterDelete(ids) == {c \in compliance_checks : c.id \notin ids}
PanelsAfterCheckDelete(ids) == {p \in panel_uploads : p.compliance_check_id \notin ids}
ResultsAfterCheckDelete(ids) == {x \in check_results : x.compliance_check_id \notin ids}

\* Mutant of ResultsAfterRuleDelete: the rule_id key cascades to every result
\* of a check that has a result for the rule.
ResultsOfChecksGoneOnRuleDelete(results, ruleIds) ==
    {x \in results :
        \A y \in results : y.rule_id \in ruleIds => y.compliance_check_id # x.compliance_check_id}

\* check_results.rule_id REFERENCES compliance_rules(id) ON DELETE CASCADE.
ResultsAfterRuleDelete(results, ruleIds) == {x \in results : x.rule_id \notin ruleIds}

(***************************************************************************)
(* Initial state: empty tables, no request in flight.                      *)
(***************************************************************************)
NoSummary == [overallStatus |-> NULL, passCount |-> 0, warningCount |-> 0, failCount |-> 0]

\* An analyze request that has not been made yet.  pc is the await the
\* handler is suspended at; status is the HTTP status once it has returned.
\* The locals of the handler (checkId .. summary, panel: the panel of the
\* current turn of the extraction loop), how far its save loop got (inserted)
\* and what it did (resolves: times the rules query returned; genCalls,
\* extractCalls, evalCalls: calls of generateDefaultRules, extractLabelData
\* and runComplianceCheck; ruleArgs: the rule lists passed to the last two;
\* deleteFailed: the catch block's DELETE threw).
IdleRun ==
    [pc |-> "idle", checkId |-> NoId, rule_set_id |-> NoId,
     panels |-> {}, rules |-> <<>>, isGenerated |-> FALSE, extractedPanels |-> <<>>,
     panel |-> NoId,
     results |-> <<>>, summary |-> NoSummary, inserted |-> 0, status |-> 0,
     resolves |-> 0, genCalls |-> 0, extractCalls |-> 0, evalCalls |-> 0,
     ruleArgs |-> {}, deleteFailed |-> FALSE, clientDelete |-> 0,
     completedBefore |-> FALSE]

\* The importer before its first request (its fields are described with the route).
NoResponse == [rules |-> <<>>, total_rules_extracted |-> 0]
NoImport == [id |-> NoId, rules |-> <<>>]

StartImp ==
    [pc |-> "idle", id |-> NoId, existingRules |-> {}, data |-> NoResponse, k |-> 0,
     added |-> 0, updated |-> 0, skipped |-> 0, total |-> 0, status |-> 0,
     writes |-> 0, runs |-> 0, last |-> NoImport, repeated |-> FALSE,
     attempt |-> 0, outcome |-> "none"]

InitDb ==
    /\ rule_sets = {}
    /\ compliance_rules = {}
    /\ compliance_checks = {}
    /\ panel_uploads = {}
    /\ check_results = {}
    /\ nextId = [rule_set |-> 0, rule |-> 0, check |-> 0, panel |-> 0, result |-> 0, generated |-> 0]

Init ==
    /\ InitDb
    /\ run = [r \in RunIds |-> IdleRun]
    /\ imp = StartImp
    /\ pure = NULL

(***************************************************************************)
(* Rule store.                                                             *)
(***************************************************************************)
\* POST /api/rules: admin creates a rule set.
CreateRuleSet(caller) ==
    /\ Role(caller) = "admin"
    /\ nextId.rule_set < MaxRuleSets
    /\ nextId' = [nextId EXCEPT !.rule_set = @ + 1]
    /\ rule_sets' = rule_sets \cup {[id |-> nextId.rule_set + 1, user_id |-> caller]}
    /\ UNCHANGED <<compliance_rules, compliance_checks, panel_uploads, check_results, run, imp, pure>>

\* DELETE /api/rules/{id}: admin of the owning org deletes a rule set; the
\* rules, the checks and their panels and results go with it.
DeleteRuleSet(caller, id) ==
    /\ Role(caller) = "admin"
    /\ verifyOrgOwnership(id, caller)
    /\ LET goneRules == {r.id : r \in {r \in compliance_rules : r.rule_set_id = id}}
           goneChecks == {c.id : c \in {c \in compliance_checks : c.rule_set_id = id}}
       IN  /\ rule_sets' = {rs \in rule_sets : rs.id # id}
           /\ compliance_rules' = {r \in compliance_rules : r.rule_set_id # id}
           /\ compliance_checks' = ChecksAfterDelete(goneChecks)
           /\ panel_uploads' = PanelsAfterCheckDelete(goneChecks)
           /\ check_results' = ResultsAfterRuleDelete(ResultsAfterCheckDelete(goneChecks), goneRules)
    /\ UNCHANGED <<nextId, run, imp, pure>>


\* !x for a string or a missing value
Falsy(v) == v \in {NULL, ""}

\* x || fallback
OrElse(v, fallback) == IF Falsy(v) THEN fallback ELSE v

\* COALESCE($n, column)
Coalesce(v, old) == IF v = NULL THEN old ELSE v

\* Request bodies of the manual rule routes.  Severity and the timestamps are
\* carried through untouched by every route and are left out of the rows.
AddRuleBodies ==
    [name : {"Manual rule", NULL}, description : {NULL}, category : {"General"},
     validationPrompt : {"check it"}]
UpdateRuleBodies ==
    [name : {NULL}, description : {NULL}, category : {NULL}, validationPrompt : {NULL},
     isActive : {NULL, "true", "false"}]

\* POST /api/rules/{id}/rules: admin adds a rule to a rule set of the org.
AddRule(caller, id, body) ==
    /\ Role(caller) = "admin"
    /\ verifyOrgOwnership(id, caller)
    /\ ~ Falsy(body.name) /\ ~ Falsy(body.category) /\ ~ Falsy(body.validationPrompt)
    /\ nextId.rule < MaxRules
    /\ nextId' = [nextId EXCEPT !.rule = @ + 1]
    /\ compliance_rules' = compliance_rules \cup
          {[id |-> nextId.rule + 1, rule_set_id |-> id, name |-> body.name,
            description |-> OrElse(body.description, body.name), category |-> body.category,
            validation_prompt |-> body.validationPrompt, source_citation |-> NULL,
            generation_status |-> NULL, is_active |-> TRUE]}
    /\ UNCHANGED <<rule_sets, compliance_checks, panel_uploads, check_results, run, imp, pure>>

\* PUT /api/rules/{id}/rules/{ruleId}: the owner of the rule set updates a rule.
UpdateRule(caller, id, ruleId, body) ==
    /\ \E rs \in rule_sets : rs.id = id /\ rs.user_id = caller
    /\ \E old \in compliance_rules :
          /\ old.id = ruleId /\ old.rule_set_id = id
          /\ compliance_rules' = (compliance_rules \ {old}) \cup
                {[old EXCEPT !.name = Coalesce(body.name, @),
                             !.description = Coalesce(body.description, @),
                             !.category = Coalesce(body.category, @),
                             !.validation_prompt = Coalesce(body.validationPrompt, @),
                             !.is_active = IF body.isActive = NULL THEN @ ELSE body.isActive = "true"]}
    /\ UNCHANGED <<rule_sets, compliance_checks, panel_uploads, check_results, nextId, run, imp, pure>>

\* DELETE /api/rules/{id}/rules/{ruleId}: the results that reference the rule
\* are deleted with it.
DeleteRule(caller, id, ruleId) ==
    /\ \E rs \in rule_sets : rs.id = id /\ rs.user_id = caller
    /\ \E old \in compliance_rules : old.id = ruleId /\ old.rule_set_id = id
    /\ compliance_rules' = {r \in compliance_rules : r.id # ruleId}
    /\ check_results' = ResultsAfterRuleDelete(check_results, {ruleId})
    /\ UNCHANGED <<rule_sets, compliance_checks, panel_uploads, nextId, run, imp, pure>>

(***************************************************************************)
(* Checks and panels.                                                      *)
(***************************************************************************)
\* The row INSERT INTO compliance_checks (user_id, rule_set_id, product_name)
\* produces: every other column takes its schema default.
NewCheckRow(id, caller, ruleSetId) ==
    [id |-> id, user_id |-> caller, rule_set_id |-> ruleSetId,
     overall_status |-> NULL, pass_count |-> 0, warning_count |-> 0,
     fail_count |-> 0, completed_at |-> NoTime]

\* POST /api/checks: any user of the org starts a check against a rule set.
CreateCheck(caller, ruleSetId) ==
    /\ ruleSetId # NoId
    /\ verifyOrgOwnership(ruleSetId, caller)
    /\ nextId.check < MaxChecks
    /\ nextId' = [nextId EXCEPT !.check = @ + 1]
    /\ compliance_checks' = compliance_checks \cup {NewCheckRow(nextId.check + 1, caller, ruleSetId)}
    /\ UNCHANGED <<rule_sets, compliance_rules, panel_uploads, check_results, run, imp, pure>>

\* POST /api/upload: the owner of a check adds a panel to it.
UploadPanel(caller, checkId) ==
    /\ \E c \in compliance_checks : c.id = checkId /\ c.user_id = caller
    /\ nextId.panel < MaxPanels
    /\ nextId' = [nextId EXCEPT !.panel = @ + 1]
    /\ panel_uploads' = panel_uploads \cup
          {[id |-> nextId.panel + 1, compliance_check_id |-> checkId, extracted_data |-> NULL]}
    /\ UNCHANGED <<rule_sets, compliance_rules, compliance_checks, check_results, run, imp, pure>>

\* DELETE /api/checks/{id}: the owner deletes a check.
DeleteCheck(caller, id) ==
    /\ \E c \in compliance_checks : c.id = id /\ c.user_id = caller
    /\ compliance_checks' = ChecksAfterDelete({id})
    /\ panel_uploads' = PanelsAfterCheckDelete({id})
    /\ check_results' = ResultsAfterCheckDelete({id})
    /\ UNCHANGED <<rule_sets, compliance_rules, nextId, run, imp, pure>>


(***************************************************************************)
(* lib/gemini.ts: what the three model calls return.  The model's answers  *)
(* are inputs; what the code computes from them is modelled as written.    *)
(***************************************************************************)
\* The raw rules the model may answer generateDefaultRules with: a list of up
\* to MaxGenRules objects.  The model is free to put an "id" key of its own
\* in an object (here: none, or the id of a stored rule).
RawRules ==
    [name : {"Generated rule"}, description : {"Generated description"},
     category : {"General"}, validation_prompt : {"look for it"}, id : {NoId, 1}]
RawRuleLists == UNION {[1..n -> RawRules] : n \in 0..MaxGenRules}

\* crypto.randomUUID(): the n-th uuid it hands out.  The uuids of the database
\* (gen_random_uuid) are numbered 1, 2, ..; these are numbered -1, -2, ...
randomUUID(n) == 0 - n

\* Mutant of generateDefaultRules: ({id: crypto.randomUUID(), ...rule}), so an
\* id the model put in the rule wins over the fresh one.
generateDefaultRulesKeepingRawId(rawRules, base) ==
    [k \in 1..Len(rawRules) |->
        [id |-> IF rawRules[k].id # NoId THEN rawRules[k].id ELSE randomUUID(base + k),
         name |-> rawRules[k].name,
         description |-> rawRules[k].description,
         category |-> rawRules[k].category,
         validation_prompt |-> rawRules[k].validation_prompt, is_generated |-> TRUE]]

\* rawRules.map((rule) => ({...rule, id: crypto.randomUUID(), is_generated: true})):
\* the k-th rule gets the k-th fresh uuid after `base`, whatever id it carried.
generateDefaultRules(rawRules, base) ==
    [k \in 1..Len(rawRules) |->
        [id |-> randomUUID(base + k), name |-> rawRules[k].name,
         description |-> rawRules[k].description,
         category |-> rawRules[k].category,
         validation_prompt |-> rawRules[k].validation_prompt, is_generated |-> TRUE]]

\* The verdicts the model may answer runComplianceCheck with: up to
\* MaxVerdicts objects whose ruleId is a rule of the prompt or missing, and
\* whose status need not be one of the three asked for.
RuleIds(rules) == {rules[k].id : k \in 1..Len(rules)}
RawVerdicts(rules) ==
    [ruleId : RuleIds(rules) \cup {NoId}, status : Statuses \cup {"n/a"},
     ruleName : {NULL}, ruleDescription : {NULL}, ruleCategory : {NULL}]
RawVerdictLists(rules) == UNION {[1..n -> RawVerdicts(rules)] : n \in 0..MaxVerdicts}

\* new Map(rules.map((r) => [r.id, r])).get(id): the last rule with that id.
RuleMapHas(rules, id) == \E k \in 1..Len(rules) : rules[k].id = id
RuleMapGet(rules, id) ==
    rules[CHOOSE k \in 1..Len(rules) :
            /\ rules[k].id = id
            /\ \A j \in 1..Len(rules) : rules[j].id = id => j <= k]

\* Mutant of Enrich: the verdicts are returned as the model gave them.
EnrichNothing(result, rules) == result

\* Enrichment of one verdict with the details of its rule.
Enrich(result, rules) ==
    IF RuleMapHas(rules, result.ruleId)
    THEN [result EXCEPT !.ruleName = RuleMapGet(rules, result.ruleId).name,
                        !.ruleDescription = RuleMapGet(rules, result.ruleId).description,
                        !.ruleCategory = RuleMapGet(rules, result.ruleId).category]
    ELSE result

\* results.filter((r) => r.status === s).length
CountStatus(results, s) == Cardinality({k \in 1..Len(results) : results[k].status = s})

\* Mutant of OverallStatus: warningCount is tested before failCount.
OverallStatusWarningFirst(passCount, warningCount, failCount) ==
    IF warningCount > 0 THEN "warning" ELSE IF failCount > 0 THEN "fail" ELSE "pass"

\* failCount > 0 ? "fail" : warningCount > 0 ? "warning" : "pass"
OverallStatus(passCount, warningCount, failCount) ==
    IF failCount > 0 THEN "fail" ELSE IF warningCount > 0 THEN "warning" ELSE "pass"

Summary(results) ==
    [overallStatus |-> OverallStatus(CountStatus(results, "pass"),
                                     CountStatus(results, "warning"),
                                     CountStatus(results, "fail")),
     passCount |-> CountStatus(results, "pass"),
     warningCount |-> CountStatus(results, "warning"),
     failCount |-> CountStatus(results, "fail")]

\* runComplianceCheck, from the parsed response on.
runComplianceCheck(rawResults, rules) ==
    LET results == [k \in 1..Len(rawResults) |-> Enrich(rawResults[k], rules)]
    IN  [results |-> results, summary |-> Summary(results)]


(***************************************************************************)
(* POST /api/analyze.  One action per database statement; a model call     *)
(* reads and writes no table, so it is taken together with the statement   *)
(* that follows or precedes it.  Every statement and every model call of   *)
(* the try block may throw, which sends the handler to its catch block.    *)
(***************************************************************************)
\* The rows of a query in one fixed order (the queries have no ORDER BY; the
\* order only numbers the rules in the prompts).
RowsInOrder(rows) ==
    CHOOSE f \in [1..Cardinality(rows) -> rows] :
        \A i, j \in 1..Cardinality(rows) : i < j => f[i].id < f[j].id

\* The handler has returned a response with this status: its locals are gone,
\* except what the 200 response carries (results, summary, isGenerated).
Returned(req, status) ==
    [req EXCEPT !.pc = "done", !.status = status, !.rule_set_id = NoId,
                !.panels = {}, !.rules = <<>>, !.extractedPanels = <<>>, !.panel = NoId,
                !.results = IF status = 200 THEN @ ELSE <<>>,
                !.summary = IF status = 200 THEN @ ELSE NoSummary,
                !.isGenerated = IF status = 200 THEN @ ELSE FALSE]

\* Mutant of Thrown: the catch block answers 500 without deleting the check.
ThrownWithoutCleanup(r) == run' = [run EXCEPT ![r] = Returned(run[r], 500)]

\* console.error(...) and on to the catch block.
Thrown(r) == run' = [run EXCEPT ![r].pc = "cleanup"]

\* Session and body checks, then the ownership query on the check.
AnalyzeBegin(r, caller, checkId) ==
    /\ run[r].pc = "idle"
    /\ IF checkId = NoId
       THEN run' = [run EXCEPT ![r] = Returned(run[r], 400)]
       ELSE IF ~ \E c \in compliance_checks : c.id = checkId /\ c.user_id = caller
       THEN run' = [run EXCEPT ![r] = Returned([run[r] EXCEPT !.checkId = checkId], 404)]
       ELSE run' = [run EXCEPT ![r].pc = "panels",
                               ![r].checkId = checkId,
                               ![r].completedBefore =
                                   RowById(compliance_checks, checkId).completed_at # NoTime,
                               ![r].rule_set_id = RowById(compliance_checks, checkId).rule_set_id]
    /\ UNCHANGED <<db, nextId, imp, pure>>

\* Mutant of AnalyzePanels: the panel test is inside the try block, so a check
\* without panels goes to the catch block.
AnalyzePanelsInsideTry(r) ==
    /\ run[r].pc = "panels"
    /\ LET panels == {p.id : p \in {p \in panel_uploads : p.compliance_check_id = run[r].checkId}}
       IN  IF panels = {}
           THEN Thrown(r)
           ELSE run' = [run EXCEPT ![r].pc = "resolve", ![r].panels = panels]
    /\ UNCHANGED <<db, nextId, imp, pure>>

\* SELECT * FROM panel_uploads WHERE compliance_check_id = $1
AnalyzePanels(r) ==
    /\ run[r].pc = "panels"
    /\ LET panels == {p.id : p \in {p \in panel_uploads : p.compliance_check_id = run[r].checkId}}
       IN  IF panels = {}
           THEN run' = [run EXCEPT ![r] = Returned(run[r], 400)]
           ELSE run' = [run EXCEPT ![r].pc = "resolve", ![r].panels = panels]
    /\ UNCHANGED <<db, nextId, imp, pure>>

\* The active rules of the rule set, or generated default rules if none.
ActiveRules(ruleSetId) ==
    {rule \in compliance_rules : rule.rule_set_id = ruleSetId /\ rule.is_active}

\* Mutant of AnalyzeResolve: the generated rules are saved to the rule set.
AnalyzeResolveSavingGenerated(r) ==
    /\ run[r].pc = "resolve"
    /\ LET persistedRules == ActiveRules(run[r].rule_set_id)
       IN  \/ /\ Thrown(r)
              /\ UNCHANGED <<nextId, compliance_rules>>
           \/ /\ persistedRules # {}
              /\ run' = [run EXCEPT ![r].pc = "extract", ![r].rules = RowsInOrder(persistedRules),
                                    ![r].resolves = @ + 1]
              /\ UNCHANGED <<nextId, compliance_rules>>
           \/ /\ persistedRules = {}
              /\ run' = [run EXCEPT ![r].pc = "cleanup", ![r].resolves = @ + 1,
                                    ![r].genCalls = @ + 1]
              /\ UNCHANGED <<nextId, compliance_rules>>
           \/ /\ persistedRules = {}
              /\ \E rawRules \in RawRuleLists :
                    LET rules == generateDefaultRules(rawRules, nextId.generated)
                    IN  /\ run' = [run EXCEPT ![r].pc = "extract", ![r].rules = rules,
                                              ![r].isGenerated = TRUE, ![r].genCalls = @ + 1,
                                              ![r].resolves = @ + 1]
                        /\ nextId' = [nextId EXCEPT !.generated = @ + Len(rawRules)]
                        /\ compliance_rules' = compliance_rules \cup
                              {[id |-> rules[k].id, rule_set_id |-> run[r].rule_set_id,
                                name |-> rules[k].name, description |-> rules[k].description,
                                category |-> rules[k].category,
                                validation_prompt |-> rules[k].validation_prompt,
                                source_citation |-> NULL, generation_status |-> NULL,
                                is_active |-> TRUE] : k \in 1..Len(rules)}
    /\ UNCHANGED <<rule_sets, compliance_checks, panel_uploads, check_results, imp, pure>>

AnalyzeResolve(r) ==
    /\ run[r].pc = "resolve"
    /\ LET persistedRules == ActiveRules(run[r].rule_set_id)
       IN  \/ /\ Thrown(r)
              /\ UNCHANGED nextId
           \/ /\ persistedRules # {}
              /\ run' = [run EXCEPT ![r].pc = "extract", ![r].rules = RowsInOrder(persistedRules),
                                    ![r].resolves = @ + 1]
              /\ UNCHANGED nextId
           \/ /\ persistedRules = {}
              /\ run' = [run EXCEPT ![r].pc = "cleanup", ![r].resolves = @ + 1,
                                    ![r].genCalls = @ + 1]
              /\ UNCHANGED nextId
           \/ /\ persistedRules = {}
              /\ \E rawRules \in RawRuleLists :
                    /\ run' = [run EXCEPT ![r].pc = "extract",
                                          ![r].rules = generateDefaultRules(rawRules, nextId.generated),
                                          ![r].isGenerated = TRUE,
                                          ![r].resolves = @ + 1,
                                          ![r].genCalls = @ + 1]
                    /\ nextId' = [nextId EXCEPT !.generated = @ + Len(rawRules)]
    /\ UNCHANGED <<db, imp, pure>>

SeqRange(q) == {q[k] : k \in 1..Len(q)}

\* A model call of request r that threw: counted, then on to the catch block.
CallThrown(r, call) ==
    run' = [run EXCEPT ![r].pc = "cleanup", ![r][call] = @ + 1,
                       ![r].ruleArgs = @ \cup {run[r].rules}]

\* Mutant of AnalyzeExtract: the rules are read again for every panel.
AnalyzeExtractRereadingRules(r) ==
    /\ run[r].pc = "extract"
    /\ \/ Thrown(r)
       \/ CallThrown(r, "extractCalls")
       \/ \E panel \in run[r].panels \ SeqRange(run[r].extractedPanels) :
             run' = [run EXCEPT ![r].pc = "update", ![r].panel = panel,
                                ![r].extractCalls = @ + 1,
                                ![r].ruleArgs = @ \cup
                                   {RowsInOrder(ActiveRules(run[r].rule_set_id))}]
    /\ UNCHANGED <<db, nextId, imp, pure>>

\* One turn of the extraction loop, first half: the next panel of the list
\* (the query returned the panels in some order), downloadBlobAsBase64 (may
\* throw), then extractLabelData with the rules (may throw).
AnalyzeExtract(r) ==
    /\ run[r].pc = "extract"
    /\ \/ Thrown(r)
       \/ CallThrown(r, "extractCalls")
       \/ \E panel \in run[r].panels \ SeqRange(run[r].extractedPanels) :
             run' = [run EXCEPT ![r].pc = "update", ![r].panel = panel,
                                ![r].extractCalls = @ + 1,
                                ![r].ruleArgs = @ \cup {run[r].rules}]
    /\ UNCHANGED <<db, nextId, imp, pure>>

\* Mutant of AnalyzeUpdatePanel: the loop is left after its first turn.
AnalyzeUpdatePanelLeavingLoop(r) ==
    /\ run[r].pc = "update"
    /\ \/ /\ Thrown(r)
          /\ UNCHANGED panel_uploads
       \/ /\ panel_uploads' =
                {IF p.id = run[r].panel THEN [p EXCEPT !.extracted_data = "extracted"] ELSE p :
                   p \in panel_uploads}
          /\ run' = [run EXCEPT
                ![r].extractedPanels = Append(@, run[r].panel),
                ![r].panel = NoId,
                ![r].pc = "evaluate"]
    /\ UNCHANGED <<rule_sets, compliance_rules, compliance_checks, check_results, nextId, imp, pure>>

\* Second half: UPDATE panel_uploads SET extracted_data = $1 WHERE id = $2,
\* then extractedPanels.push; after the last panel the loop is left.
AnalyzeUpdatePanel(r) ==
    /\ run[r].pc = "update"
    /\ \/ /\ Thrown(r)
          /\ UNCHANGED panel_uploads
       \/ /\ panel_uploads' =
                {IF p.id = run[r].panel THEN [p EXCEPT !.extracted_data = "extracted"] ELSE p :
                   p \in panel_uploads}
          /\ run' = [run EXCEPT
                ![r].extractedPanels = Append(@, run[r].panel),
                ![r].panel = NoId,
                ![r].pc = IF SeqRange(Append(run[r].extractedPanels, run[r].panel)) = run[r].panels
                          THEN "evaluate" ELSE "extract"]
    /\ UNCHANGED <<rule_sets, compliance_rules, compliance_checks, check_results, nextId, imp, pure>>

\* runComplianceCheck(extractedPanels, rules)
AnalyzeEvaluate(r) ==
    /\ run[r].pc = "evaluate"
    /\ \/ CallThrown(r, "evalCalls")
       \/ \E rawResults \in RawVerdictLists(run[r].rules) :
             LET out == runComplianceCheck(rawResults, run[r].rules)
             IN  run' = [run EXCEPT ![r].pc = "persist", ![r].results = out.results,
                                    ![r].summary = out.summary,
                                    ![r].evalCalls = @ + 1,
                                    ![r].ruleArgs = @ \cup {run[r].rules}]
    /\ UNCHANGED <<db, nextId, imp, pure>>

\* The row one INSERT INTO check_results of the save loop asks for.
ResultRow(id, checkId, isGenerated, res) ==
    IF isGenerated
    THEN [id |-> id, compliance_check_id |-> checkId, rule_id |-> NoId, status |-> res.status,
          is_generated_rule |-> TRUE,
          generated_rule_name |-> OrElse(res.ruleName, "Unknown Rule"),
          generated_rule_description |-> res.ruleDescription,
          generated_rule_category |-> OrElse(res.ruleCategory, "General")]
    ELSE [id |-> id, compliance_check_id |-> checkId, rule_id |-> res.ruleId, status |-> res.status,
          is_generated_rule |-> FALSE, generated_rule_name |-> NULL,
          generated_rule_description |-> NULL, generated_rule_category |-> NULL]

\* Mutant of ResultRowAccepted: the check_results_rule_source CHECK is missing.
ResultRowAcceptedWithoutSourceCheck(row) ==
    /\ HasId(compliance_checks, row.compliance_check_id)
    /\ row.rule_id = NoId \/ HasId(compliance_rules, row.rule_id)
    /\ row.status \in Statuses

\* Mutant of ResultRowAccepted: the CHECK on status is missing.
ResultRowAcceptedWithAnyStatus(row) ==
    /\ HasId(compliance_checks, row.compliance_check_id)
    /\ row.rule_id = NoId \/ HasId(compliance_rules, row.rule_id)
    /\ row.rule_id # NoId \/ (row.is_generated_rule /\ row.generated_rule_name # NULL)

\* The constraints of check_results: both foreign keys, the status CHECK and
\* the check_results_rule_source CHECK.
ResultRowAccepted(row) ==
    /\ HasId(compliance_checks, row.compliance_check_id)
    /\ row.rule_id = NoId \/ HasId(compliance_rules, row.rule_id)
    /\ row.status \in Statuses
    /\ row.rule_id # NoId \/ (row.is_generated_rule /\ row.generated_rule_name # NULL)

\* Mutant of AnalyzeInsert: the first turn of the save loop replaces the
\* results the check already has.
AnalyzeInsertReplacing(r) ==
    /\ run[r].pc = "persist"
    /\ run[r].inserted < Len(run[r].results)
    /\ LET row == ResultRow(nextId.result + 1, run[r].checkId, run[r].isGenerated,
                            run[r].results[run[r].inserted + 1])
           kept == IF run[r].inserted = 0
                   THEN {x \in check_results : x.compliance_check_id # run[r].checkId}
                   ELSE check_results
       IN  \/ /\ Thrown(r)
              /\ UNCHANGED <<check_results, nextId>>
           \/ /\ ResultRowAccepted(row)
              /\ check_results' = kept \cup {row}
              /\ nextId' = [nextId EXCEPT !.result = @ + 1]
              /\ run' = [run EXCEPT ![r].inserted = @ + 1]
    /\ UNCHANGED <<rule_sets, compliance_rules, compliance_checks, panel_uploads, imp, pure>>

\* One turn of the save loop.
AnalyzeInsert(r) ==
    /\ run[r].pc = "persist"
    /\ run[r].inserted < Len(run[r].results)
    /\ LET row == ResultRow(nextId.result + 1, run[r].checkId, run[r].isGenerated,
                            run[r].results[run[r].inserted + 1])
       IN  \/ /\ Thrown(r)
              /\ UNCHANGED <<check_results, nextId>>
           \/ /\ ResultRowAccepted(row)
              /\ check_results' = check_results \cup {row}
              /\ nextId' = [nextId EXCEPT !.result = @ + 1]
              /\ run' = [run EXCEPT ![r].inserted = @ + 1]
    /\ UNCHANGED <<rule_sets, compliance_rules, compliance_checks, panel_uploads, imp, pure>>

\* NOW() as seen by request r.
Now(r) == r

\* Mutant of CompletedRow: completed_at is not written.
CompletedRowWithoutTimestamp(row, summary, now) ==
    [row EXCEPT !.overall_status = summary.overallStatus,
                !.pass_count = summary.passCount,
                !.warning_count = summary.warningCount,
                !.fail_count = summary.failCount]

\* UPDATE compliance_checks SET overall_status, pass_count, warning_count,
\* fail_count, completed_at = NOW() WHERE id = $5
CompletedRow(row, summary, now) ==
    [row EXCEPT !.overall_status = summary.overallStatus,
                !.pass_count = summary.passCount,
                !.warning_count = summary.warningCount,
                !.fail_count = summary.failCount,
                !.completed_at = now]

\* The summary update and the success response.
AnalyzeComplete(r) ==
    /\ run[r].pc = "persist"
    /\ run[r].inserted = Len(run[r].results)
    /\ \/ /\ Thrown(r)
          /\ UNCHANGED compliance_checks
       \/ /\ compliance_checks' =
                {IF c.id = run[r].checkId THEN CompletedRow(c, run[r].summary, Now(r)) ELSE c :
                   c \in compliance_checks}
          /\ run' = [run EXCEPT ![r] = Returned(run[r], 200)]
    /\ UNCHANGED <<rule_sets, compliance_rules, panel_uploads, check_results, nextId, imp, pure>>

\* Mutant of AnalyzeCleanup: the DELETE spares a check that is completed
\* (... WHERE id = $1 AND completed_at IS NULL).
AnalyzeCleanupSparingCompleted(r) ==
    /\ run[r].pc = "cleanup"
    /\ LET ids == {c.id : c \in {c \in compliance_checks :
                                  c.id = run[r].checkId /\ c.completed_at = NoTime}}
       IN  \/ /\ compliance_checks' = ChecksAfterDelete(ids)
              /\ panel_uploads' = PanelsAfterCheckDelete(ids)
              /\ check_results' = ResultsAfterCheckDelete(ids)
              /\ run' = [run EXCEPT ![r] = Returned(run[r], 500)]
           \/ /\ UNCHANGED <<compliance_checks, panel_uploads, check_results>>
              /\ run' = [run EXCEPT ![r] = Returned([run[r] EXCEPT !.deleteFailed = TRUE], 500)]
    /\ UNCHANGED <<rule_sets, compliance_rules, nextId, imp, pure>>

\* The catch block: DELETE FROM compliance_checks WHERE id = $1 in a try of
\* its own, whose failure is only logged, then the 500 response.
AnalyzeCleanup(r) ==
    /\ run[r].pc = "cleanup"
    /\ \/ /\ compliance_checks' = ChecksAfterDelete({run[r].checkId})
          /\ panel_uploads' = PanelsAfterCheckDelete({run[r].checkId})
          /\ check_results' = ResultsAfterCheckDelete({run[r].checkId})
          /\ run' = [run EXCEPT ![r] = Returned(run[r], 500)]
       \/ /\ UNCHANGED <<compliance_checks, panel_uploads, check_results>>
          /\ run' = [run EXCEPT ![r] = Returned([run[r] EXCEPT !.deleteFailed = TRUE], 500)]
    /\ UNCHANGED <<rule_sets, compliance_rules, nextId, imp, pure>>

Analyze(r) ==
    \/ \E caller \in Users, checkId \in 0..MaxChecks : AnalyzeBegin(r, caller, checkId)
    \/ AnalyzePanels(r)
    \/ AnalyzeResolve(r)
    \/ AnalyzeExtract(r)
    \/ AnalyzeUpdatePanel(r)
    \/ AnalyzeEvaluate(r)
    \/ AnalyzeInsert(r)
    \/ AnalyzeComplete(r)
    \/ AnalyzeCleanup(r)

(***************************************************************************)
(* The application: the store routes and the analyze requests.             *)
(***************************************************************************)
Next ==
    \/ \E caller \in Users : CreateRuleSet(caller)
    \/ \E caller \in Users, id \in 1..MaxRuleSets : DeleteRuleSet(caller, id)
    \/ \E caller \in Users, id \in 1..MaxRuleSets, body \in AddRuleBodies : AddRule(caller, id, body)
    \/ \E caller \in Users, id \in 1..MaxRuleSets, ruleId \in 1..MaxRules, body \in UpdateRuleBodies :
          UpdateRule(caller, id, ruleId, body)
    \/ \E caller \in Users, id \in 1..MaxRuleSets, ruleId \in 1..MaxRules : DeleteRule(caller, id, ruleId)
    \/ \E caller \in Users, ruleSetId \in 0..MaxRuleSets : CreateCheck(caller, ruleSetId)
    \/ \E caller \in Users, checkId \in 1..MaxChecks : UploadPanel(caller, checkId)
    \/ \E caller \in Users, id \in 1..MaxChecks : DeleteCheck(caller, id)
    \/ \E r \in RunIds : Analyze(r)

Spec == Init /\ [][Next]_vars


(***************************************************************************)
(* Properties of the analyze route.                                        *)
(***************************************************************************)
\* No row of the check is left: not the check, not a panel, not a result.
CheckGone(checkId) ==
    /\ ~ HasId(compliance_checks, checkId)
    /\ \A p \in panel_uploads : p.compliance_check_id # checkId
    /\ \A x \in check_results : x.compliance_check_id # checkId

\* C1, as claimed: once a run that failed inside the try block has returned
\* (500), the check and all its panels and results are gone.
C1_RolledBackAfterAnyFailure ==
    \A r \in RunIds :
        (run[r].pc = "done" /\ run[r].status = 500) => CheckGone(run[r].checkId)

\* C1, amended: once a failed run has returned, the check and all its panels
\* and results are gone, unless the catch block's own DELETE threw (which is
\* only logged).
C1_RolledBackUnlessDeleteThrew ==
    \A r \in RunIds :
        (run[r].pc = "done" /\ run[r].status = 500 /\ ~ run[r].deleteFailed)
            => CheckGone(run[r].checkId)

\* A run failed after it had inserted a result (hence after it had written
\* extracted_data), its DELETE went through, and it returned 500.
C1_Witness ==
    \E r \in RunIds :
        /\ run[r].pc = "done" /\ run[r].status = 500 /\ ~ run[r].deleteFailed
        /\ run[r].inserted >= 1
        /\ CheckGone(run[r].checkId)

\* C3: a run whose evaluation yielded no verdict leaves the check incomplete:
\* overall_status and completed_at stay null.
C3_EmptyVerdictsLeaveCheckIncomplete ==
    \A r \in RunIds : \A c \in compliance_checks :
        (run[r].pc = "done" /\ run[r].status = 200 /\ run[r].results = <<>>
              /\ c.id = run[r].checkId)
            => (c.overall_status = NULL /\ c.completed_at = NoTime)

\* C4: every check_results row has exactly one provenance: a rule_id, or
\* is_generated_rule with a generated_rule_name; never both, never neither.
C4_ProvenanceExclusive ==
    \A x \in check_results :
        (x.rule_id # NoId) # (x.is_generated_rule /\ x.generated_rule_name # NULL)

\* Rows of the generated form exist, one of them for a verdict that named no
\* rule of the list.
C4_Witness ==
    \E x \in check_results :
        /\ x.rule_id = NoId /\ x.is_generated_rule
        /\ x.generated_rule_name = "Unknown Rule"

\* C5: overall_status is set iff completed_at is; until then the counters are
\* 0; and the five columns of a check change only in the step in which a run
\* returns 200, which writes them all from that run's summary.
C5_Inv ==
    \A c \in compliance_checks :
        /\ (c.overall_status # NULL) <=> (c.completed_at # NoTime)
        /\ c.completed_at = NoTime =>
              (c.pass_count = 0 /\ c.warning_count = 0 /\ c.fail_count = 0)

C5_Step ==
    \A c \in compliance_checks : \A d \in compliance_checks' :
        (c.id = d.id /\ c # d) =>
            \E r \in RunIds :
                /\ run[r].pc = "persist" /\ run[r].checkId = c.id
                /\ run'[r].pc = "done" /\ run'[r].status = 200
                /\ d.overall_status = run[r].summary.overallStatus
                /\ d.pass_count = run[r].summary.passCount
                /\ d.warning_count = run[r].summary.warningCount
                /\ d.fail_count = run[r].summary.failCount
                /\ d.completed_at # NoTime
                /\ d.overall_status \in Statuses

C5_AtomicCompletion == [] C5_Inv /\ [][C5_Step]_vars

\* A completed check whose counters are not all 0.
C5_Witness ==
    \E c \in compliance_checks :
        /\ c.completed_at # NoTime /\ c.overall_status = "fail" /\ c.fail_count >= 1


\* C6: a run whose rule set has no active rule uses the generated list, all
\* of it marked is_generated and with ids distinct from one another and from
\* every stored rule; a run whose rule set has active rules uses exactly
\* those rows and calls generateDefaultRules not at all.
C6_Inv ==
    \A r \in RunIds :
        (run[r].pc \in {"extract", "evaluate", "persist"} /\ run[r].isGenerated) =>
            /\ \A k \in 1..Len(run[r].rules) : run[r].rules[k].is_generated
            /\ \A j, k \in 1..Len(run[r].rules) :
                  j # k => run[r].rules[j].id # run[r].rules[k].id
            /\ \A k \in 1..Len(run[r].rules) : \A rule \in compliance_rules :
                  rule.id # run[r].rules[k].id

C6_Step ==
    \A r \in RunIds :
        LET active == {rule \in compliance_rules :
                          rule.rule_set_id = run[r].rule_set_id /\ rule.is_active}
        IN  /\ (run[r].pc = "resolve" /\ run'[r].pc = "extract" /\ active = {}) =>
                  (run'[r].isGenerated /\ run'[r].genCalls = run[r].genCalls + 1)
            /\ (run[r].pc = "resolve" /\ run'[r].pc = "extract" /\ active # {}) =>
                  /\ ~ run'[r].isGenerated
                  /\ SeqRange(run'[r].rules) = active
                  /\ Len(run'[r].rules) = Cardinality(active)
            /\ (run[r].pc = "resolve" /\ active # {}) =>
                  run'[r].genCalls = run[r].genCalls

C6_ResolverFallback == [] C6_Inv /\ [][C6_Step]_vars

\* A run uses two generated rules for a rule set whose only rule is inactive.
C6_Witness ==
    \E r \in RunIds :
        /\ run[r].pc = "extract" /\ run[r].isGenerated /\ Len(run[r].rules) = 2
        /\ \E rule \in compliance_rules :
              rule.rule_set_id = run[r].rule_set_id /\ ~ rule.is_active

\* C7: no step of an analyze request changes rule_sets or compliance_rules,
\* and no generated rule is ever a row of compliance_rules.
C7_Inv ==
    \A rule \in compliance_rules :
        rule.id \notin {randomUUID(n) : n \in 1..nextId.generated}

C7_Step == run' # run => UNCHANGED <<rule_sets, compliance_rules>>

C7_RuleStoreUntouched == [] C7_Inv /\ [][C7_Step]_vars

\* A run with generated rules has returned 200 and left a result row that
\* carries the generated rule's name inline.
C7_Witness ==
    \E r \in RunIds :
        /\ run[r].pc = "done" /\ run[r].status = 200 /\ run[r].isGenerated
        /\ \E x \in check_results :
              /\ x.compliance_check_id = run[r].checkId
              /\ x.generated_rule_name = "Generated rule"

(***************************************************************************)
(* Properties of the store.                                                *)
(***************************************************************************)
\* C10: the step that deletes a rule set removes exactly its rules, its
\* checks and the panels and results of those checks, and nothing else; no
\* row ever refers to a rule set or check that is gone.
C10_Inv ==
    /\ \A rule \in compliance_rules : HasId(rule_sets, rule.rule_set_id)
    /\ \A c \in compliance_checks : HasId(rule_sets, c.rule_set_id)
    /\ \A p \in panel_uploads : HasId(compliance_checks, p.compliance_check_id)
    /\ \A x \in check_results : HasId(compliance_checks, x.compliance_check_id)

C10_Step ==
    \A rs \in rule_sets :
        rs \notin rule_sets' =>
            LET goneChecks == {c.id : c \in {c \in compliance_checks : c.rule_set_id = rs.id}}
            IN  /\ rule_sets' = rule_sets \ {rs}
                /\ compliance_rules' = {rule \in compliance_rules : rule.rule_set_id # rs.id}
                /\ compliance_checks' = {c \in compliance_checks : c.rule_set_id # rs.id}
                /\ panel_uploads' =
                      {p \in panel_uploads : p.compliance_check_id \notin goneChecks}
                /\ check_results' =
                      {x \in check_results : x.compliance_check_id \notin goneChecks}

C10_RuleSetCascade == [] C10_Inv /\ [][C10_Step]_vars

\* Rule set 1 is gone, results had been written and none is left, while rule
\* set 2 still has a rule.
C10_Witness ==
    /\ ~ HasId(rule_sets, 1) /\ HasId(rule_sets, 2)
    /\ nextId.result >= 1 /\ check_results = {}
    /\ nextId.check >= 1 /\ compliance_checks = {}
    /\ \E rule \in compliance_rules : rule.rule_set_id = 2

\* C11: the step that deletes a rule (its rule set stays) removes exactly the
\* results whose rule_id is that rule; results of the generated form, results
\* for other rules, the checks with their counters and the panels stay as
\* they are.
C11_Step ==
    \A rule \in compliance_rules :
        (~ HasId(compliance_rules', rule.id) /\ HasId(rule_sets', rule.rule_set_id)) =>
            /\ check_results' = {x \in check_results : x.rule_id # rule.id}
            /\ \A x \in check_results : x.rule_id = NoId => x \in check_results'
            /\ UNCHANGED <<compliance_checks, panel_uploads, rule_sets>>
            /\ compliance_rules' = compliance_rules \ {rule}

C11_RuleCascadeFrame == [][C11_Step]_vars

\* A completed check had results for rules 1 and 2; rule 1 has been deleted,
\* the result for rule 2 is the only one left and the counters still count both.
C11_Witness ==
    /\ ~ HasId(compliance_rules, 1) /\ HasId(compliance_rules, 2)
    /\ \E c \in compliance_checks :
          /\ c.completed_at # NoTime
          /\ c.pass_count + c.warning_count + c.fail_count = 2
          /\ \E x \in check_results :
                /\ x.compliance_check_id = c.id /\ x.rule_id = 2
                /\ {y \in check_results : y.compliance_check_id = c.id} = {x}


(***************************************************************************)
(* The rule-generation route: inferCategory.                               *)
(*                                                                         *)
(* A JavaScript string is its sequence of characters; Chars gives it for   *)
(* each string the model uses.                                             *)
(***************************************************************************)
InferNames ==
    {"THC Percentage Display",
     "Potency Statement",
     "Universal Symbol",
     "Child Warning",
     "Net",
     "Net Weight Statement",
     "Allergen List",
     "Font Size",
     "Producer License",
     "Contest Entry",
     "Lexicon",
     "Expiration Date",
     "CBD Ratio",
     "QR Code Link"}
InferDescriptions ==
    {"",
     "potency",
     "States the potency of the product",
     "weight in grams",
     "Keep Out of reach of children",
     "must be legible",
     "printed on the label",
     "batch number",
     "icon required"}

Chars ==
    ("" :> <<>>) @@
    ("Allergen List" :> <<"A", "l", "l", "e", "r", "g", "e", "n", " ", "L", "i", "s", "t">>) @@
    ("CBD Ratio" :> <<"C", "B", "D", " ", "R", "a", "t", "i", "o">>) @@
    ("Child Warning" :> <<"C", "h", "i", "l", "d", " ", "W", "a", "r", "n", "i", "n", "g">>) @@
    ("Contest Entry" :> <<"C", "o", "n", "t", "e", "s", "t", " ", "E", "n", "t", "r", "y">>) @@
    ("Expiration Date" :> <<"E", "x", "p", "i", "r", "a", "t", "i", "o", "n", " ", "D", "a", "t", "e">>) @@
    ("Font Size" :> <<"F", "o", "n", "t", " ", "S", "i", "z", "e">>) @@
    ("Keep Out of reach of children" :> <<"K", "e", "e", "p", " ", "O", "u", "t", " ", "o", "f", " ", "r", "e", "a", "c", "h", " ", "o", "f", " ", "c", "h", "i", "l", "d", "r", "e", "n">>) @@
    ("Lexicon" :> <<"L", "e", "x", "i", "c", "o", "n">>) @@
    ("Net" :> <<"N", "e", "t">>) @@
    ("Net Weight Statement" :> <<"N", "e", "t", " ", "W", "e", "i", "g", "h", "t", " ", "S", "t", "a", "t", "e", "m", "e", "n", "t">>) @@
    ("Potency Statement" :> <<"P", "o", "t", "e", "n", "c", "y", " ", "S", "t", "a", "t", "e", "m", "e", "n", "t">>) @@
    ("Producer License" :> <<"P", "r", "o", "d", "u", "c", "e", "r", " ", "L", "i", "c", "e", "n", "s", "e">>) @@
    ("QR Code Link" :> <<"Q", "R", " ", "C", "o", "d", "e", " ", "L", "i", "n", "k">>) @@
    ("States the potency of the product" :> <<"S", "t", "a", "t", "e", "s", " ", "t", "h", "e", " ", "p", "o", "t", "e", "n", "c", "y", " ", "o", "f", " ", "t", "h", "e", " ", "p", "r", "o", "d", "u", "c", "t">>) @@
    ("THC Percentage Display" :> <<"T", "H", "C", " ", "P", "e", "r", "c", "e", "n", "t", "a", "g", "e", " ", "D", "i", "s", "p", "l", "a", "y">>) @@
    ("Universal Symbol" :> <<"U", "n", "i", "v", "e", "r", "s", "a", "l", " ", "S", "y", "m", "b", "o", "l">>) @@
    ("batch number" :> <<"b", "a", "t", "c", "h", " ", "n", "u", "m", "b", "e", "r">>) @@
    ("icon required" :> <<"i", "c", "o", "n", " ", "r", "e", "q", "u", "i", "r", "e", "d">>) @@
    ("must be legible" :> <<"m", "u", "s", "t", " ", "b", "e", " ", "l", "e", "g", "i", "b", "l", "e">>) @@
    ("potency" :> <<"p", "o", "t", "e", "n", "c", "y">>) @@
    ("printed on the label" :> <<"p", "r", "i", "n", "t", "e", "d", " ", "o", "n", " ", "t", "h", "e", " ", "l", "a", "b", "e", "l">>) @@
    ("weight in grams" :> <<"w", "e", "i", "g", "h", "t", " ", "i", "n", " ", "g", "r", "a", "m", "s">>)

\* String.prototype.toLowerCase on the letters A to Z.
UpperLetters == <<"A", "B", "C", "D", "E", "F", "G", "H", "I", "J", "K", "L", "M", "N", "O", "P", "Q", "R", "S", "T", "U", "V", "W", "X", "Y", "Z">>
LowerLetters == <<"a", "b", "c", "d", "e", "f", "g", "h", "i", "j", "k", "l", "m", "n", "o", "p", "q", "r", "s", "t", "u", "v", "w", "x", "y", "z">>
toLowerCase(text) ==
    [i \in 1..Len(text) |->
        IF \E n \in 1..Len(UpperLetters) : UpperLetters[n] = text[i]
        THEN LowerLetters[CHOOSE n \in 1..Len(UpperLetters) : UpperLetters[n] = text[i]]
        ELSE text[i]]

\* String.prototype.includes
includes(text, word) ==
    \E i \in 1..(Len(text) - Len(word) + 1) : SubSeq(text, i, i + Len(word) - 1) = word

RequiredWarningsKeywords ==
    {<<"w", "a", "r", "n", "i", "n", "g">>,
     <<"k", "e", "e", "p", " ", "o", "u", "t">>,
     <<"a", "d", "d", "i", "c", "t", "i", "v", "e">>,
     <<"i", "n", "t", "o", "x", "i", "c", "a", "t", "i", "n", "g">>}
SymbolsKeywords ==
    {<<"s", "y", "m", "b", "o", "l">>,
     <<"i", "c", "o", "n">>,
     <<"u", "n", "i", "v", "e", "r", "s", "a", "l">>}
IngredientKeywords ==
    {<<"i", "n", "g", "r", "e", "d", "i", "e", "n", "t">>,
     <<"a", "l", "l", "e", "r", "g", "e", "n">>}
NetWeightKeywords ==
    {<<"n", "e", "t", " ", "w", "e", "i", "g", "h", "t">>,
     <<"n", "e", "t", " ", "q", "u", "a", "n", "t", "i", "t", "y">>,
     <<"n", "e", "t", " ", "c", "o", "n", "t", "e", "n", "t", "s">>}
PlacementKeywords ==
    {<<"p", "l", "a", "c", "e", "m", "e", "n", "t">>,
     <<"d", "i", "s", "p", "l", "a", "y">>,
     <<"f", "o", "n", "t">>,
     <<"l", "e", "g", "i", "b">>}
ThcKeywords ==
    {<<"t", "h", "c">>,
     <<"c", "b", "d">>,
     <<"c", "a", "n", "n", "a", "b", "i", "n", "o", "i", "d">>,
     <<"p", "o", "t", "e", "n", "c", "y">>}
ManufacturerKeywords ==
    {<<"m", "a", "n", "u", "f", "a", "c", "t", "u", "r", "e", "r">>,
     <<"l", "i", "c", "e", "n", "s", "e", "e">>,
     <<"p", "r", "o", "d", "u", "c", "e", "r">>}
BatchKeywords ==
    {<<"b", "a", "t", "c", "h">>,
     <<"t", "e", "s", "t">>,
     <<"c", "e", "r", "t", "i", "f", "i", "c", "a", "t", "e">>,
     <<"q", "r", " ", "c", "o", "d", "e">>}

\* text.includes(k1) || text.includes(k2) || ...
includesAny(text, keywords) == \E word \in keywords : includes(text, word)

\* inferCategory: the chain of if statements over `${ruleName} ${ruleDescription}`.
inferCategory(ruleName, ruleDescription) ==
    LET text == toLowerCase(Chars[ruleName] \o <<" ">> \o Chars[ruleDescription])
    IN  IF includesAny(text, RequiredWarningsKeywords) THEN "Required Warnings"
        ELSE IF includesAny(text, SymbolsKeywords) THEN "Symbols & Icons"
        ELSE IF includesAny(text, IngredientKeywords) THEN "Ingredient Panels"
        ELSE IF includesAny(text, NetWeightKeywords) THEN "Net Weight Format"
        ELSE IF includesAny(text, PlacementKeywords) THEN "Placement Rules"
        ELSE IF includesAny(text, ThcKeywords) THEN "THC Content"
        ELSE IF includesAny(text, ManufacturerKeywords) THEN "Manufacturer Info"
        ELSE IF includesAny(text, BatchKeywords) THEN "Batch & Testing"
        ELSE "General"

\* inferCategory applied to every name and description of the vocabulary.
InitInfer ==
    /\ InitDb
    /\ run = [r \in RunIds |-> IdleRun]
    /\ imp = StartImp
    /\ \E ruleName \in InferNames, ruleDescription \in InferDescriptions :
          pure = [ruleName |-> ruleName, ruleDescription |-> ruleDescription,
                  done |-> FALSE, category |-> NULL]

ApplyInferCategory ==
    /\ ~ pure.done
    /\ pure' = [pure EXCEPT !.done = TRUE,
                            !.category = inferCategory(pure.ruleName, pure.ruleDescription)]
    /\ UNCHANGED <<db, nextId, run, imp>>

SpecInfer == InitInfer /\ [][ApplyInferCategory]_vars

\* The keyword table as the claim reads it: the groups in their order.
KeywordGroups ==
    <<[category |-> "Required Warnings", keywords |-> RequiredWarningsKeywords],
      [category |-> "Symbols & Icons", keywords |-> SymbolsKeywords],
      [category |-> "Ingredient Panels", keywords |-> IngredientKeywords],
      [category |-> "Net Weight Format", keywords |-> NetWeightKeywords],
      [category |-> "Placement Rules", keywords |-> PlacementKeywords],
      [category |-> "THC Content", keywords |-> ThcKeywords],
      [category |-> "Manufacturer Info", keywords |-> ManufacturerKeywords],
      [category |-> "Batch & Testing", keywords |-> BatchKeywords]>>

TextOf(ruleName, ruleDescription) ==
    toLowerCase(Chars[ruleName] \o <<" ">> \o Chars[ruleDescription])

MatchingGroups(ruleName, ruleDescription) ==
    {g \in 1..Len(KeywordGroups) :
        \E word \in KeywordGroups[g].keywords :
            includes(TextOf(ruleName, ruleDescription), word)}

FirstMatchCategory(ruleName, ruleDescription) ==
    LET groups == MatchingGroups(ruleName, ruleDescription)
    IN  IF groups = {} THEN "General"
        ELSE KeywordGroups[CHOOSE g \in groups : \A h \in groups : g <= h].category

\* C9, as claimed: "THC Percentage Display" with a description that mentions
\* potency is "THC Content"; a text with no keyword is "General"; and in
\* general the category is that of the first group, in table order, with a
\* keyword in the lower-cased name and description.
C9_InferCategoryAsClaimed ==
    pure.done =>
        /\ (pure.ruleName = "THC Percentage Display"
              /\ includes(toLowerCase(Chars[pure.ruleDescription]), <<"p", "o", "t", "e", "n", "c", "y">>))
                 => pure.category = "THC Content"
        /\ MatchingGroups(pure.ruleName, pure.ruleDescription) = {}
                 => pure.category = "General"
        /\ pure.category = FirstMatchCategory(pure.ruleName, pure.ruleDescription)

(***************************************************************************)
(* runComplianceCheck as a function of the model's answer: the summary of  *)
(* every list of up to MaxSummaryVerdicts verdicts over one rule.          *)
(***************************************************************************)
SummaryRules ==
    generateDefaultRules(<<[name |-> "Generated rule", description |-> "Generated description",
                            category |-> "General", validation_prompt |-> "look for it",
                            id |-> NoId]>>, 0)

SummaryVerdictLists ==
    UNION {[1..n -> RawVerdicts(SummaryRules)] : n \in 0..MaxSummaryVerdicts}

InitSummary ==
    /\ InitDb
    /\ run = [r \in RunIds |-> IdleRun]
    /\ imp = StartImp
    /\ \E rawResults \in SummaryVerdictLists :
          pure = [rawResults |-> rawResults, done |-> FALSE,
                  results |-> <<>>, summary |-> NoSummary]

ApplyRunComplianceCheck ==
    /\ ~ pure.done
    /\ pure' = [pure EXCEPT !.done = TRUE,
                            !.results = runComplianceCheck(pure.rawResults, SummaryRules).results,
                            !.summary = runComplianceCheck(pure.rawResults, SummaryRules).summary]
    /\ UNCHANGED <<db, nextId, run, imp>>

SpecSummary == InitSummary /\ [][ApplyRunComplianceCheck]_vars

Verdicts(status) == {k \in 1..Len(pure.rawResults) : pure.rawResults[k].status = status}

\* C2: for every list of verdicts, overallStatus is fail iff some verdict is
\* fail; otherwise it is warning iff some verdict is warning; otherwise it is
\* pass.  The three counters count the verdicts of each status, so one fail
\* dominates any number of passes and warnings.
C2_StatusPrecedence ==
    pure.done =>
        /\ pure.summary.failCount = Cardinality(Verdicts("fail"))
        /\ pure.summary.warningCount = Cardinality(Verdicts("warning"))
        /\ pure.summary.passCount = Cardinality(Verdicts("pass"))
        /\ pure.summary.overallStatus = "fail" <=> Verdicts("fail") # {}
        /\ Verdicts("fail") = {} =>
              /\ pure.summary.overallStatus = "warning" <=> Verdicts("warning") # {}
              /\ Verdicts("warning") = {} => pure.summary.overallStatus = "pass"

\* One fail among two other verdicts, a pass and a warning, and the summary says fail.
C2_Witness ==
    /\ pure.done
    /\ Cardinality(Verdicts("fail")) = 1
    /\ Cardinality(Verdicts("warning")) = 1
    /\ Cardinality(Verdicts("pass")) = 1
    /\ pure.summary.overallStatus = "fail"


(***************************************************************************)
(* fetchWithRetry.  The answers of the network to the successive fetch     *)
(* calls are the input (script): a response, whatever its status, or an    *)
(* error with the code of its cause.                                       *)
(***************************************************************************)
maxRetries == 3

RetryableCodes ==
    {"UND_ERR_SOCKET", "ECONNRESET", "ECONNREFUSED", "UND_ERR_CONNECT_TIMEOUT",
     "UND_ERR_HEADERS_TIMEOUT", "UND_ERR_BODY_TIMEOUT"}
\* "OTHER": any other code, or an error without a cause.
ErrorCodes == RetryableCodes \cup {"OTHER"}
FetchOutcomes == ErrorCodes \cup {"response"}

isRetryableError(errorCode) == errorCode \in RetryableCodes

\* 1000 * Math.pow(2, attempt)
Backoff(attempt) == 1000 * 2^attempt

\* Mutant of RetryDecision: every thrown error is retried until the last
\* attempt.
RetryDecisionForAnyError(attempt, errorCode) ==
    IF attempt = maxRetries - 1 THEN "throw" ELSE "wait"

\* Mutant of RetryDecision: the test for the last attempt is missing.
RetryDecisionWithoutLastAttemptTest(attempt, errorCode) ==
    IF ~ isRetryableError(errorCode) THEN "throw" ELSE "wait"

\* The catch block, attempt counted from 0:
\* if (!isRetryableError || attempt === maxRetries - 1) throw error; else wait.
RetryDecision(attempt, errorCode) ==
    IF ~ isRetryableError(errorCode) \/ attempt = maxRetries - 1 THEN "throw" ELSE "wait"

\* One answer more than the loop can use.
Scripts == [1..(maxRetries + 1) -> FetchOutcomes]

InitRetry ==
    /\ InitDb
    /\ run = [r \in RunIds |-> IdleRun]
    /\ imp = StartImp
    /\ \E script \in Scripts :
          pure = [script |-> script, pc |-> "fetch", attempt |-> 0, calls |-> 0,
                  waited |-> <<>>, result |-> 0]

\* One turn of the for loop: the fetch call and, when it throws, the catch
\* block with its wait; or, with the loop condition false, throw lastError.
\* calls counts the fetch calls, waited lists the delays waited, result is the
\* call whose response is returned or whose error is thrown.
FetchAttempt ==
    /\ pure.pc = "fetch"
    /\ pure' =
          IF ~ (pure.attempt < maxRetries)
          THEN [pure EXCEPT !.pc = "thrown", !.result = pure.calls]
          ELSE LET outcome == pure.script[pure.calls + 1]
               IN  IF outcome = "response"
                   THEN [pure EXCEPT !.pc = "returned", !.calls = @ + 1,
                                     !.result = pure.calls + 1]
                   ELSE IF RetryDecision(pure.attempt, outcome) = "throw"
                   THEN [pure EXCEPT !.pc = "thrown", !.calls = @ + 1,
                                     !.result = pure.calls + 1]
                   ELSE [pure EXCEPT !.calls = @ + 1, !.attempt = @ + 1,
                                     !.waited = Append(@, Backoff(pure.attempt))]
    /\ UNCHANGED <<db, nextId, run, imp>>

\* The fetch call returns or throws (the agent's timeouts) and the timer fires.
SpecRetry == InitRetry /\ [][FetchAttempt]_vars /\ WF_vars(FetchAttempt)

C14_Inv ==
    /\ pure.calls <= 3
    /\ Len(pure.waited) <= 2
    /\ \A k \in 1..Len(pure.waited) :
          /\ pure.waited[k] = 1000 * 2^(k - 1)
          /\ pure.script[k] \in RetryableCodes
    /\ pure.pc = "fetch" => Len(pure.waited) = pure.calls
    /\ pure.pc # "fetch" =>
          /\ pure.result = pure.calls
          /\ Len(pure.waited) = pure.calls - 1
          /\ \A k \in 1..(pure.calls - 1) : pure.script[k] # "response"
    /\ pure.pc = "returned" <=>
          \E k \in 1..3 : /\ pure.script[k] = "response"
                          /\ pure.result = k
                          /\ \A j \in 1..(k - 1) : pure.script[j] \in RetryableCodes
    /\ pure.pc = "thrown" => pure.script[pure.result] \in ErrorCodes

Finished == pure.pc \in {"returned", "thrown"}

\* C14: fetchWithRetry calls fetch at most 3 times and always finishes; it
\* returns the response of the first call that does not throw; after the
\* retryable failure of call k (k = 1, 2) it waits 1000 * 2^(k-1) ms, and
\* when call 3 fails it rethrows that call's error with no further wait.
C14_BoundedRetry == [] C14_Inv /\ <> Finished

\* Two retryable failures, waits of 1 s and 2 s, then the third call fails
\* and its error is thrown.
C14_Witness ==
    /\ pure.pc = "thrown" /\ pure.calls = 3 /\ pure.result = 3
    /\ pure.waited = <<1000, 2000>>
    /\ pure.script[3] \in RetryableCodes

(***************************************************************************)
(* POST /api/rules/{id}/generate: the rule importer.  One action per       *)
(* database statement or call of the extraction service.  Five fields of  *)
(* imp are history: outcome is what the last fetch call of the request led *)
(* to, runs counts the requests, writes the INSERT and UPDATE              *)
(* statements this request has executed, last is the rule set and the      *)
(* candidates of the latest successful request (until the next request     *)
(* gets its response), and repeated says that this request got, for the    *)
(* same rule set, the very response the successful request before it got.  *)
(***************************************************************************)
CandidateStatuses == {"new", "updated", "unchanged"}
Candidates ==
    [rule_name : {"Net"}, rule_description : {"weight in grams", "potency"},
     rule_text_citation : {"cit-a", "cit-b"}, status : CandidateStatuses]
CandidateLists == UNION {[1..n -> Candidates] : n \in 0..MaxCandidates}

\* A response body with success: true.  total_rules_extracted is the service's
\* count of the rules it returns; the route passes it on as `total`.
Responses ==
    {[rules |-> rules, total_rules_extracted |-> Len(rules)] : rules \in CandidateLists}

InitImport ==
    /\ InitDb
    /\ run = [r \in RunIds |-> IdleRun]
    /\ imp = StartImp
    /\ pure = NULL

\* NextResponse.json(..., {status}): the handler's locals are gone.
ImportReturned(req, status) ==
    [req EXCEPT !.pc = "done", !.status = status, !.existingRules = {}, !.k = 0,
                !.attempt = 0,
                !.data = NoResponse,
                !.total = IF status = 200 THEN req.data.total_rules_extracted ELSE 0,
                !.added = IF status = 200 THEN @ ELSE 0,
                !.updated = IF status = 200 THEN @ ELSE 0,
                !.skipped = IF status = 200 THEN @ ELSE 0,
                !.last = IF status = 200 THEN [id |-> req.id, rules |-> req.data.rules] ELSE @]

\* The session, then SELECT * FROM rule_sets WHERE id = $1 AND user_id = $2.
ImportBegin(caller, id) ==
    /\ imp.pc \in {"idle", "done"}
    /\ imp.runs < MaxImports
    /\ LET req == [StartImp EXCEPT !.id = id, !.runs = imp.runs + 1, !.last = imp.last]
       IN  \/ /\ \E rs \in rule_sets : rs.id = id /\ rs.user_id = caller
              /\ imp' = [req EXCEPT !.pc = "existing"]
           \/ /\ ~ \E rs \in rule_sets : rs.id = id /\ rs.user_id = caller
              /\ imp' = ImportReturned(req, 404)
    /\ UNCHANGED <<db, nextId, run, pure>>

\* SELECT * FROM compliance_rules WHERE rule_set_id = $1, outside the try
\* block: when it throws the framework answers 500.
ImportExisting ==
    /\ imp.pc = "existing"
    /\ \/ imp' = [imp EXCEPT !.pc = "fetch",
                             !.existingRules = {r \in compliance_rules : r.rule_set_id = imp.id}]
       \/ imp' = ImportReturned(imp, 500)
    /\ UNCHANGED <<db, nextId, run, pure>>

\* What one fetch call of fetchWithRetry leads to.  It throws: the catch block
\* of fetchWithRetry waits and the loop goes on, or rethrows to the outer catch
\* (500).  It returns a response, which fetchWithRetry returns whatever its
\* status: not ok (502, or 500 when reading the error text throws); a body
\* that does not parse (outer catch, 500); a body with success false (502);
\* or a body whose rules the loop goes through.  outcome records which, for
\* the history of the request ("not retryable" for an error that fetchWithRetry
\* rethrows at once, "threw" for every other exception that reaches the
\* outer catch).
FetchThrew(errorCode) ==
    IF RetryDecision(imp.attempt, errorCode) = "wait"
    THEN [imp EXCEPT !.attempt = @ + 1]
    ELSE ImportReturned([imp EXCEPT !.outcome = IF isRetryableError(errorCode)
                                                THEN "threw"
                                                ELSE "not retryable"], 500)

FetchedRules(data) ==
    LET req == [imp EXCEPT !.data = data, !.last = NoImport, !.outcome = "rules",
                           !.repeated = imp.last = [id |-> imp.id, rules |-> data.rules]]
    IN  IF Len(data.rules) = 0
        THEN ImportReturned(req, 200)
        ELSE [req EXCEPT !.pc = "apply", !.k = 1]

\* Mutant of ImportFetch: a response that is not ok is handled like a thrown
\* retryable error (retried until the last attempt).
ImportFetchRetryingNotOk ==
    /\ imp.pc = "fetch"
    /\ \/ \E errorCode \in ErrorCodes : imp' = FetchThrew(errorCode)
       \/ imp' = IF RetryDecision(imp.attempt, "ECONNRESET") = "wait"
                 THEN [imp EXCEPT !.attempt = @ + 1, !.outcome = "not ok"]
                 ELSE ImportReturned([imp EXCEPT !.outcome = "not ok"], 502)
       \/ imp' = ImportReturned([imp EXCEPT !.outcome = "not ok"], 500)
       \/ imp' = ImportReturned([imp EXCEPT !.outcome = "threw"], 500)
       \/ imp' = ImportReturned([imp EXCEPT !.outcome = "success false"], 502)
       \/ \E data \in Responses : imp' = FetchedRules(data)
    /\ UNCHANGED <<db, nextId, run, pure>>

ImportFetch ==
    /\ imp.pc = "fetch"
    /\ \/ \E errorCode \in ErrorCodes : imp' = FetchThrew(errorCode)
       \/ imp' = ImportReturned([imp EXCEPT !.outcome = "not ok"], 502)
       \/ imp' = ImportReturned([imp EXCEPT !.outcome = "not ok"], 500)
       \/ imp' = ImportReturned([imp EXCEPT !.outcome = "threw"], 500)
       \/ imp' = ImportReturned([imp EXCEPT !.outcome = "success false"], 502)
       \/ \E data \in Responses : imp' = FetchedRules(data)
    /\ UNCHANGED <<db, nextId, run, pure>>

\* Mutant of CandidateAction: only `new` is told apart (rule.status !== "new"
\* takes the update branch), so an unchanged candidate is written.
CandidateActionUnchangedWritten(rule, existingRules) ==
    IF rule.status = "new" THEN "insert"
    ELSE IF \E r \in existingRules : r.source_citation = rule.rule_text_citation
         THEN "update" ELSE "insert"

\* The branch of the loop body a candidate takes.
CandidateAction(rule, existingRules) ==
    IF rule.status = "new" THEN "insert"
    ELSE IF rule.status = "updated"
    THEN IF \E r \in existingRules : r.source_citation = rule.rule_text_citation
         THEN "update" ELSE "insert"
    ELSE "skip"

\* The row of INSERT INTO compliance_rules (..., source_citation, generation_status).
ImportedRule(id, ruleSetId, rule) ==
    [id |-> id, rule_set_id |-> ruleSetId, name |-> rule.rule_name,
     description |-> rule.rule_description,
     category |-> inferCategory(rule.rule_name, rule.rule_description),
     validation_prompt |-> rule.rule_description,
     source_citation |-> rule.rule_text_citation, generation_status |-> "new",
     is_active |-> TRUE]

\* Mutant of RulesAfterUpdate: the UPDATE selects by the citation it was found
\* by (WHERE source_citation = ...) instead of by id.
RulesAfterUpdateByCitation(existingId, rule) ==
    {IF r.source_citation = rule.rule_text_citation
     THEN [r EXCEPT !.name = rule.rule_name, !.description = rule.rule_description,
                    !.validation_prompt = rule.rule_description,
                    !.category = inferCategory(rule.rule_name, rule.rule_description),
                    !.generation_status = rule.status]
     ELSE r : r \in compliance_rules}

\* UPDATE compliance_rules SET name, description, validation_prompt, category,
\* generation_status WHERE id = $5: no row when the rule has been deleted.
RulesAfterUpdate(existingId, rule) ==
    {IF r.id = existingId
     THEN [r EXCEPT !.name = rule.rule_name, !.description = rule.rule_description,
                    !.validation_prompt = rule.rule_description,
                    !.category = inferCategory(rule.rule_name, rule.rule_description),
                    !.generation_status = rule.status]
     ELSE r : r \in compliance_rules}

\* The request after the loop body for candidate k: the next candidate, or
\* the 200 response after the last.
ImportAdvance(req) ==
    IF req.k = Len(req.data.rules) THEN ImportReturned(req, 200) ELSE [req EXCEPT !.k = @ + 1]

\* Mutant of ImportApply: when a write throws, the rows of the rule set that
\* were not there at the start of the request are removed.
ImportApplyUndoingWrites ==
    /\ imp.pc = "apply"
    /\ LET rule == imp.data.rules[imp.k]
           action == CandidateAction(rule, imp.existingRules)
       IN  \/ /\ action = "insert"
              /\ \E rs \in rule_sets : rs.id = imp.id
              /\ nextId.rule < MaxRules
              /\ nextId' = [nextId EXCEPT !.rule = @ + 1]
              /\ compliance_rules' = compliance_rules \cup
                    {ImportedRule(nextId.rule + 1, imp.id, rule)}
              /\ imp' = ImportAdvance([imp EXCEPT !.added = @ + 1, !.writes = @ + 1])
           \/ /\ action = "update"
              /\ \E existingRule \in {r \in imp.existingRules :
                                         r.source_citation = rule.rule_text_citation} :
                    compliance_rules' = RulesAfterUpdate(existingRule.id, rule)
              /\ imp' = ImportAdvance([imp EXCEPT !.updated = @ + 1, !.writes = @ + 1])
              /\ UNCHANGED nextId
           \/ /\ action = "skip"
              /\ imp' = ImportAdvance([imp EXCEPT !.skipped = @ + 1])
              /\ UNCHANGED <<compliance_rules, nextId>>
           \/ /\ action # "skip"
              /\ imp' = ImportReturned(imp, 500)
              /\ compliance_rules' =
                    {r \in compliance_rules : r.rule_set_id # imp.id \/ r \in imp.existingRules}
              /\ UNCHANGED nextId
    /\ UNCHANGED <<rule_sets, compliance_checks, panel_uploads, check_results, run, pure>>

\* Mutant of ImportApply: an `updated` candidate is looked up in the rules the
\* rule set has now, not in the rules read before the fetch.
ImportApplyMatchingStore ==
    /\ imp.pc = "apply"
    /\ LET rule == imp.data.rules[imp.k]
           stored == {r \in compliance_rules : r.rule_set_id = imp.id}
           action == CandidateAction(rule, stored)
       IN  \/ /\ action = "insert"
              /\ \E rs \in rule_sets : rs.id = imp.id
              /\ nextId.rule < MaxRules
              /\ nextId' = [nextId EXCEPT !.rule = @ + 1]
              /\ compliance_rules' = compliance_rules \cup
                    {ImportedRule(nextId.rule + 1, imp.id, rule)}
              /\ imp' = ImportAdvance([imp EXCEPT !.added = @ + 1, !.writes = @ + 1])
           \/ /\ action = "update"
              /\ \E existingRule \in {r \in stored :
                                         r.source_citation = rule.rule_text_citation} :
                    compliance_rules' = RulesAfterUpdate(existingRule.id, rule)
              /\ imp' = ImportAdvance([imp EXCEPT !.updated = @ + 1, !.writes = @ + 1])
              /\ UNCHANGED nextId
           \/ /\ action = "skip"
              /\ imp' = ImportAdvance([imp EXCEPT !.skipped = @ + 1])
              /\ UNCHANGED <<compliance_rules, nextId>>
           \/ /\ action # "skip"
              /\ imp' = ImportReturned(imp, 500)
              /\ UNCHANGED <<compliance_rules, nextId>>
    /\ UNCHANGED <<rule_sets, compliance_checks, panel_uploads, check_results, run, pure>>

\* One pass of the loop body.  An INSERT or UPDATE that throws (always so the
\* INSERT when the rule set is gone) ends the request in the outer catch.
ImportApply ==
    /\ imp.pc = "apply"
    /\ LET rule == imp.data.rules[imp.k]
           action == CandidateAction(rule, imp.existingRules)
       IN  \/ /\ action = "insert"
              /\ \E rs \in rule_sets : rs.id = imp.id
              /\ nextId.rule < MaxRules
              /\ nextId' = [nextId EXCEPT !.rule = @ + 1]
              /\ compliance_rules' = compliance_rules \cup
                    {ImportedRule(nextId.rule + 1, imp.id, rule)}
              /\ imp' = ImportAdvance([imp EXCEPT !.added = @ + 1, !.writes = @ + 1])
           \/ /\ action = "update"
              /\ \E existingRule \in {r \in imp.existingRules :
                                         r.source_citation = rule.rule_text_citation} :
                    compliance_rules' = RulesAfterUpdate(existingRule.id, rule)
              /\ imp' = ImportAdvance([imp EXCEPT !.updated = @ + 1, !.writes = @ + 1])
              /\ UNCHANGED nextId
           \/ /\ action = "skip"
              /\ imp' = ImportAdvance([imp EXCEPT !.skipped = @ + 1])
              /\ UNCHANGED <<compliance_rules, nextId>>
           \/ /\ action # "skip"
              /\ imp' = ImportReturned(imp, 500)
              /\ UNCHANGED <<compliance_rules, nextId>>
    /\ UNCHANGED <<rule_sets, compliance_checks, panel_uploads, check_results, run, pure>>

NextImport ==
    \/ \E caller \in Users : CreateRuleSet(caller)
    \/ \E caller \in Users, id \in 1..MaxRuleSets : DeleteRuleSet(caller, id)
    \/ \E caller \in Users, id \in 1..MaxRuleSets, body \in AddRuleBodies : AddRule(caller, id, body)
    \/ \E caller \in Users, id \in 1..MaxRuleSets, ruleId \in 1..MaxRules : DeleteRule(caller, id, ruleId)
    \/ \E caller \in Users, id \in 1..MaxRuleSets : ImportBegin(caller, id)
    \/ ImportExisting
    \/ ImportFetch
    \/ ImportApply

SpecImport == InitImport /\ [][NextImport]_vars


AllUnchanged(rules) == \A k \in 1..Len(rules) : rules[k].status = "unchanged"

\* C8, as claimed: a second import of a rule set that gets the response the
\* first one got answers added = 0, updated = 0, skipped = total, and has
\* executed no INSERT or UPDATE.
C8_RepeatedImportWritesNothing ==
    (imp.pc = "done" /\ imp.status = 200 /\ imp.repeated) =>
        /\ imp.added = 0 /\ imp.updated = 0 /\ imp.skipped = imp.total
        /\ imp.writes = 0

C8_Inv ==
    (imp.pc = "done" /\ imp.status = 200 /\ imp.repeated /\ AllUnchanged(imp.last.rules)) =>
        /\ imp.added = 0 /\ imp.updated = 0
        /\ imp.skipped = Len(imp.last.rules) /\ imp.skipped = imp.total
        /\ imp.writes = 0

C8_Step ==
    (imp.pc = "apply" /\ imp' # imp /\ imp.repeated /\ AllUnchanged(imp.data.rules)) =>
        UNCHANGED <<compliance_rules, nextId>>

\* C8, amended: a second import of a rule set that gets the response the first
\* one got, every candidate of which the service has tagged unchanged, answers
\* added = 0, updated = 0 and skipped = the number of candidates, and no step
\* of it inserts or updates a rule.
C8_RepeatedUnchangedImportWritesNothing == [] C8_Inv /\ [][C8_Step]_vars

\* The second of two imports of a rule set has returned; both got the same
\* two candidates, tagged unchanged, and it skipped both.
C8_Witness ==
    /\ imp.pc = "done" /\ imp.status = 200 /\ imp.runs = 2 /\ imp.repeated
    /\ Len(imp.last.rules) = 2 /\ AllUnchanged(imp.last.rules)
    /\ imp.skipped = 2


\* C12: a pass of the loop over an `updated` candidate that does not throw:
\* when a rule read at the start of the request has the candidate's citation,
\* one such rule is rewritten in place (name, description, category,
\* generation_status) if it still exists, no row is inserted, every other row
\* stays, and updated grows by one; when none has, exactly one row is
\* inserted, with generation_status "new", and added grows by one instead.
C12_Step ==
    (imp.pc = "apply" /\ imp' # imp /\ ~ (imp'.pc = "done" /\ imp'.status = 500)
       /\ imp.data.rules[imp.k].status = "updated") =>
        LET rule == imp.data.rules[imp.k]
            matches == {e \in imp.existingRules : e.source_citation = rule.rule_text_citation}
        IN  IF matches # {}
            THEN /\ {r.id : r \in compliance_rules'} = {r.id : r \in compliance_rules}
                 /\ \E e \in matches : \A r \in compliance_rules :
                       IF r.id = e.id
                       THEN \E u \in compliance_rules' :
                               /\ u.id = r.id /\ u.rule_set_id = r.rule_set_id
                               /\ u.name = rule.rule_name
                               /\ u.description = rule.rule_description
                               /\ u.category = inferCategory(rule.rule_name, rule.rule_description)
                               /\ u.generation_status = "updated"
                               /\ u.source_citation = r.source_citation
                               /\ u.is_active = r.is_active
                       ELSE r \in compliance_rules'
                 /\ imp'.updated = imp.updated + 1 /\ imp'.added = imp.added
                 /\ imp'.skipped = imp.skipped
            ELSE /\ \E row \in compliance_rules' :
                       /\ ~ HasId(compliance_rules, row.id)
                       /\ compliance_rules' = compliance_rules \cup {row}
                       /\ row.rule_set_id = imp.id
                       /\ row.name = rule.rule_name
                       /\ row.description = rule.rule_description
                       /\ row.source_citation = rule.rule_text_citation
                       /\ row.generation_status = "new"
                 /\ imp'.added = imp.added + 1 /\ imp'.updated = imp.updated
                 /\ imp'.skipped = imp.skipped

C12_UpdatedCandidate == [][C12_Step]_vars

\* Two imports have returned: one inserted an `updated` candidate whose
\* citation no rule had, one rewrote a rule in place; a rewritten rule and an
\* untouched rule stand side by side.
C12_Witness ==
    /\ imp.pc = "done" /\ imp.status = 200 /\ imp.runs = 2 /\ imp.updated = 1
    /\ \E u, r \in compliance_rules :
          /\ u.generation_status = "updated" /\ r.generation_status = "new"
          /\ u.rule_set_id = r.rule_set_id


HardFailures == {"not ok", "success false"}

\* A request answered with an error carries no counts: its counters are 0.
C13_Inv ==
    (imp.pc = "done" /\ imp.outcome \in HardFailures) =>
        /\ imp.status \in {500, 502}
        /\ imp.outcome = "success false" => imp.status = 502
        /\ imp.added = 0 /\ imp.updated = 0 /\ imp.skipped = 0 /\ imp.total = 0
        /\ imp.writes = 0

C13_Step ==
    /\ (imp' # imp /\ imp'.outcome \in HardFailures) =>
          (imp.pc = "fetch" /\ imp'.pc = "done")
    /\ (imp' # imp /\ imp.pc \in {"idle", "done", "existing", "fetch"}) =>
          UNCHANGED <<compliance_rules, nextId>>

\* C13: when the service answers with a status that is not 2xx or with
\* success false, the request ends in that step with an error (502, or 500
\* when the error text of a non-2xx response cannot be read; no counts): no
\* further fetch call is made, and the request has inserted or updated no
\* rule.
C13_HardFailure == [] C13_Inv /\ [][C13_Step]_vars

\* After an import that wrote rules, a second one met success false on its
\* third fetch call and returned 502.
C13_Witness ==
    /\ imp.pc = "done" /\ imp.status = 502 /\ imp.outcome = "success false"
    /\ imp.runs = 2 /\ compliance_rules # {}


(***************************************************************************)
(* Properties of the analyze route, continued.                             *)
(***************************************************************************)
ModelCalls(req) == req.genCalls + req.extractCalls + req.evalCalls

\* Request r is answered in this step with the given status, having made no
\* model call, and no table changes.
Rejected(r, status) ==
    /\ run'[r].pc = "done" /\ run'[r].status = status
    /\ ModelCalls(run'[r]) = 0
    /\ UNCHANGED <<db, nextId>>

C15_Step ==
    \A r \in RunIds :
        /\ \A caller \in Users, checkId \in 0..MaxChecks :
              AnalyzeBegin(r, caller, checkId) =>
                 /\ checkId = NoId => Rejected(r, 400)
                 /\ (checkId # NoId /\
                     ~ \E c \in compliance_checks : c.id = checkId /\ c.user_id = caller) =>
                       Rejected(r, 404)
        /\ (AnalyzePanels(r) /\
            ~ \E p \in panel_uploads : p.compliance_check_id = run[r].checkId) =>
               Rejected(r, 400)
        /\ run[r].pc = "done" => run'[r] = run[r]

\* C15: a run-analysis request without checkId is answered 400, one whose
\* check does not exist or is not the caller's 404, one whose check has no
\* panel 400; the answering step makes no model call and changes no table,
\* and the request does nothing after its answer (no rollback of the check).
C15_RejectionWithoutSideEffects == [][C15_Step]_vars

\* A request for an existing check without panels was answered 400 and the
\* check is still there, not completed.
C15_Witness ==
    /\ run[1].pc = "done" /\ run[1].status = 400 /\ run[1].checkId # NoId
    /\ \E c \in compliance_checks : c.id = run[1].checkId /\ c.completed_at = NoTime


(***************************************************************************)
(* The fields of the rules.  The manual routes are given bodies with any   *)
(* category and prompt a client can send.  (The importer writes the        *)
(* category inferCategory gives, always one of the nine, and the           *)
(* description of the candidate as prompt.)                                *)
(***************************************************************************)
RULE_CATEGORIES ==
    {"Required Warnings", "Symbols & Icons", "Ingredient Panels", "Net Weight Format",
     "Placement Rules", "THC Content", "Manufacturer Info", "Batch & Testing", "General"}

AnyAddRuleBodies ==
    [name : {"Manual rule"}, description : {NULL}, category : {"General", "Custom", ""},
     validationPrompt : {"check it", ""}]
AnyUpdateRuleBodies ==
    [name : {NULL}, description : {NULL}, category : {NULL, "Custom"},
     validationPrompt : {NULL, "", "check again"}, isActive : {NULL}]

NextRules ==
    \/ \E caller \in Users : CreateRuleSet(caller)
    \/ \E caller \in Users, id \in 1..MaxRuleSets, body \in AnyAddRuleBodies : AddRule(caller, id, body)
    \/ \E caller \in Users, id \in 1..MaxRuleSets, ruleId \in 1..MaxRules, body \in AnyUpdateRuleBodies :
          UpdateRule(caller, id, ruleId, body)
    \/ \E caller \in Users, id \in 1..MaxRuleSets, ruleId \in 1..MaxRules : DeleteRule(caller, id, ruleId)

SpecRules == InitImport /\ [][NextRules]_vars

\* C16: every rule row has one of the nine categories of RULE_CATEGORIES and
\* a validation prompt that is not empty.
C16_RuleFieldInvariant ==
    \A rule \in compliance_rules :
        /\ rule.category \in RULE_CATEGORIES
        /\ rule.validation_prompt \notin {NULL, ""}


(***************************************************************************)
(* GET /api/checks/{id}: the check of the caller (joined with its rule     *)
(* set), its panels, and its results joined with their rules.  The handler *)
(* only reads; its answer is given as a function of the tables.            *)
(***************************************************************************)
GetCheck(caller, id) ==
    IF ~ \E c \in compliance_checks :
            c.id = id /\ c.user_id = caller /\ HasId(rule_sets, c.rule_set_id)
    THEN [status |-> 404, panels |-> {}, results |-> {}]
    ELSE [status |-> 200,
          check |-> RowById(compliance_checks, id),
          panels |-> {p \in panel_uploads : p.compliance_check_id = id},
          results |-> {cr \in check_results :
                          /\ cr.compliance_check_id = id
                          /\ \E r \in compliance_rules : r.id = cr.rule_id}]

\* C17: GET check of an owned check returns the check with all of its panel
\* rows and all of its result rows, those of generated rules (rule_id null)
\* included.
C17_GetCheckComplete ==
    \A caller \in Users, id \in 1..MaxChecks :
        LET resp == GetCheck(caller, id)
        IN  resp.status = 200 =>
               /\ resp.check.id = id
               /\ resp.panels = {p \in panel_uploads : p.compliance_check_id = id}
               /\ resp.results = {cr \in check_results : cr.compliance_check_id = id}


(***************************************************************************)
(* One analysis run over a check with several panels.  The store is as a   *)
(* CreateRuleSet, up to MaxRules AddRule, a CreateCheck and up to          *)
(* MaxRunPanels UploadPanel requests of the admin leave it; then the run   *)
(* goes on beside changes of the rules and the deletion of the check.  The *)
(* handler keeps running: every await of it returns or throws.             *)
(***************************************************************************)
MaxRunPanels == 3

ManualRule(id, ruleSetId) ==
    [id |-> id, rule_set_id |-> ruleSetId, name |-> "Manual rule",
     description |-> "Manual rule", category |-> "General",
     validation_prompt |-> "check it", source_citation |-> NULL,
     generation_status |-> NULL, is_active |-> TRUE]

InitRun ==
    /\ \E k \in 0..MaxRules, n \in 1..MaxRunPanels :
          /\ rule_sets = {[id |-> 1, user_id |-> "u1"]}
          /\ compliance_rules = {ManualRule(i, 1) : i \in 1..k}
          /\ compliance_checks = {NewCheckRow(1, "u1", 1)}
          /\ panel_uploads =
                {[id |-> i, compliance_check_id |-> 1, extracted_data |-> NULL] : i \in 1..n}
          /\ check_results = {}
          /\ nextId = [rule_set |-> 1, rule |-> k, check |-> 1, panel |-> n,
                       result |-> 0, generated |-> 0]
    /\ run = [r \in RunIds |-> IdleRun]
    /\ imp = StartImp
    /\ pure = NULL

NextRun ==
    \/ \E r \in RunIds : Analyze(r)
    \/ \E caller \in Users, id \in 1..MaxRuleSets, body \in AddRuleBodies : AddRule(caller, id, body)
    \/ \E caller \in Users, id \in 1..MaxRuleSets, ruleId \in 1..MaxRules, body \in UpdateRuleBodies :
          UpdateRule(caller, id, ruleId, body)
    \/ \E caller \in Users, id \in 1..MaxRuleSets, ruleId \in 1..MaxRules : DeleteRule(caller, id, ruleId)
    \/ \E caller \in Users, id \in 1..MaxChecks : DeleteCheck(caller, id)

SpecRun == InitRun /\ [][NextRun]_vars /\ WF_vars(\E r \in RunIds : Analyze(r))


\* The steps of the handler that may follow one another.
Successors(pc) ==
    CASE pc = "idle" -> {"panels", "done"}
      [] pc = "panels" -> {"resolve", "done"}
      [] pc = "resolve" -> {"extract", "cleanup"}
      [] pc = "extract" -> {"update", "cleanup"}
      [] pc = "update" -> {"extract", "evaluate", "cleanup"}
      [] pc = "evaluate" -> {"persist", "cleanup"}
      [] pc = "persist" -> {"persist", "done", "cleanup"}
      [] pc = "cleanup" -> {"done"}
      [] pc = "done" -> {}

C18_Inv ==
    \A r \in RunIds :
        /\ run[r].evalCalls <= 1 /\ run[r].resolves <= 1
        /\ run[r].pc \in {"evaluate", "persist"} =>
              /\ SeqRange(run[r].extractedPanels) = run[r].panels
              /\ run[r].extractCalls = Cardinality(run[r].panels)
        /\ run[r].pc = "persist" => (run[r].evalCalls = 1 /\ run[r].inserted <= Len(run[r].results))
        /\ (run[r].pc = "done" /\ run[r].status = 200) =>
              (run[r].resolves = 1 /\ run[r].evalCalls = 1 /\ run[r].extractCalls >= 1 /\
               run[r].inserted = Len(run[r].results))

C18_Step ==
    \A r \in RunIds :
        /\ run'[r] # run[r] => run'[r].pc \in Successors(run[r].pc)
        /\ run'[r].evalCalls # run[r].evalCalls => run[r].pc = "evaluate"
        /\ ~ (check_results' \subseteq check_results) =>
              (run[r].pc = "persist" /\ run'[r].inserted = run[r].inserted + 1)
        /\ (\E c \in compliance_checks, d \in compliance_checks' : c.id = d.id /\ c # d) =>
              /\ run[r].pc = "persist" /\ run[r].inserted = Len(run[r].results)
              /\ run'[r].pc = "done" /\ run'[r].status = 200
        /\ (run'[r].pc = "done" /\ run[r].pc # "done" /\ run'[r].status = 200) =>
              run[r].pc = "persist"
        /\ run[r].pc = "cleanup" =>
              (run'[r] = run[r] \/ (run'[r].pc = "done" /\ run'[r].status = 500))

FailureEnds ==
    \A r \in RunIds : (run[r].pc = "cleanup") ~> (run[r].pc = "done" /\ run[r].status = 500)

\* C18, as claimed: the steps of a run follow the phase order, evaluation is
\* called once and only after every panel has been extracted, the completion
\* write follows the insertion of a row for every verdict, and a failure in
\* any step ends the run with the check rolled back, never completed.
C18_PhaseOrderRolledBack ==
    /\ [] (C18_Inv /\ C1_RolledBackAfterAnyFailure)
    /\ [][C18_Step]_vars
    /\ FailureEnds

\* C18, amended: the same, where a failure ends the run with the 500 answer
\* of the catch block after its one DELETE of the check: the check is rolled
\* back when that DELETE went through, and is never completed by the run.
C18_PhaseOrder ==
    /\ [] (C18_Inv /\ C1_RolledBackUnlessDeleteThrew)
    /\ [][C18_Step]_vars
    /\ FailureEnds

\* A run over at least two panels that completed its check with a result row
\* inserted.
C18_Witness ==
    /\ run[1].pc = "done" /\ run[1].status = 200
    /\ run[1].extractCalls >= 2 /\ run[1].evalCalls = 1 /\ run[1].inserted >= 1
    /\ \E c \in compliance_checks : c.id = run[1].checkId /\ c.completed_at # NoTime


C19_Inv ==
    \A r \in RunIds :
        LET req == run[r]
            extracted == SeqRange(req.extractedPanels)
        IN  /\ req.resolves <= 1
            /\ Cardinality(req.ruleArgs) <= 1
            /\ req.pc \in {"extract", "update", "evaluate", "persist"} =>
                  (req.resolves = 1 /\ req.ruleArgs \subseteq {req.rules})
            /\ Cardinality(extracted) = Len(req.extractedPanels)
            /\ extracted \subseteq req.panels
            /\ req.pc \in {"extract", "evaluate", "persist"} =>
                  req.extractCalls = Len(req.extractedPanels)
            /\ req.pc = "update" =>
                  /\ req.extractCalls = Len(req.extractedPanels) + 1
                  /\ req.panel \in req.panels \ extracted
            /\ req.pc \in {"evaluate", "persist"} =>
                  req.extractCalls = Cardinality(req.panels)
            /\ req.evalCalls = 1 => Cardinality(req.ruleArgs) = 1

C19_Step ==
    \A r \in RunIds :
        /\ run'[r].resolves # run[r].resolves => run[r].pc = "resolve"
        /\ run'[r].extractCalls # run[r].extractCalls =>
              /\ run[r].pc = "extract"
              /\ run'[r].extractCalls = run[r].extractCalls + 1
              /\ run[r].extractCalls = Len(run[r].extractedPanels)
              /\ \A p \in panel_uploads :
                    p.id \in SeqRange(run[r].extractedPanels) => p.extracted_data # NULL
              /\ run'[r].ruleArgs = {run[r].rules}
        /\ run'[r].evalCalls # run[r].evalCalls => run'[r].ruleArgs = {run[r].rules}
        /\ (run[r].pc \in {"extract", "update", "evaluate"} /\
            run'[r].pc \in {"extract", "update", "evaluate", "persist"}) =>
              run'[r].rules = run[r].rules

\* C19: a run that reaches evaluation has read the rules once and made one
\* extraction call per panel, each started only when the one before it has
\* returned and its extracted_data has been written to the panel's row; every
\* extraction call and the evaluation call are given the rule list read at
\* the start, whatever happens to the rules in the store meanwhile.
C19_SequentialExtraction == [] C19_Inv /\ [][C19_Step]_vars

\* A run over two or more panels has been evaluated with the stored rules it
\* read, which are no longer the active rules of the rule set.
C19_Witness ==
    /\ run[1].pc = "persist" /\ run[1].evalCalls = 1 /\ run[1].extractCalls >= 2
    /\ ~ run[1].isGenerated
    /\ SeqRange(run[1].rules) # ActiveRules(run[1].rule_set_id)
    /\ \A p \in panel_uploads : p.extracted_data # NULL
    /\ panel_uploads # {}


(***************************************************************************)
(* lib/gemini.ts, runComplianceCheck: the reduce that combines the         *)
(* extracted data of the panels.  A JSON value is a record: an array with  *)
(* its items, a string with its characters, or null; a key an object does  *)
(* not have is "absent" (undefined when read).                             *)
(***************************************************************************)
MaxMergePanels == 3

Arr(items) == [kind |-> "array", items |-> items]
Str(chars) == [kind |-> "string", items |-> chars]
Null == [kind |-> "null", items |-> <<>>]
Absent == [kind |-> "absent", items |-> <<>>]

MergeKeys == {"rawText", "ingredients"}
MergeValues == {Arr(<<"x">>), Arr(<<"y">>), Str(<<"a">>), Str(<<" ", "b">>), Null}
PanelData == [MergeKeys -> MergeValues \cup {Absent}]
PanelDataLists == UNION {[1..n -> PanelData] : n \in 1..MaxMergePanels}

\* Array.prototype.join
RECURSIVE join(_, _)
join(items, sep) ==
    IF items = <<>> THEN <<>>
    ELSE IF Len(items) = 1 THEN <<items[1]>>
    ELSE <<items[1]>> \o sep \o join(Tail(items), sep)

\* `${v || ""}`: a falsy value gives "", an array its items joined by ","
templateText(v) ==
    IF v.kind = "string" THEN v.items
    ELSE IF v.kind = "array" THEN join(v.items, <<",">>)
    ELSE <<>>

\* String.prototype.trim
RECURSIVE trimStart(_)
trimStart(q) == IF q # <<>> /\ Head(q) = " " THEN trimStart(Tail(q)) ELSE q
RECURSIVE trimEnd(_)
trimEnd(q) == IF q # <<>> /\ q[Len(q)] = " " THEN trimEnd(SubSeq(q, 1, Len(q) - 1)) ELSE q
trim(q) == trimEnd(trimStart(q))

\* The body of the loop over Object.entries(data) for one key.
mergedValue(key, accValue, value) ==
    IF value.kind = "array" /\ accValue.kind = "array"
    THEN Arr(accValue.items \o value.items)
    ELSE IF key = "rawText"
    THEN Str(trim(templateText(accValue) \o <<" ">> \o templateText(value)))
    ELSE value

\* The reducer: { ...acc } with the entries of data merged in.
merged(acc, data) ==
    [key \in MergeKeys |->
        IF data[key].kind = "absent" THEN acc[key] ELSE mergedValue(key, acc[key], data[key])]

InitMerge ==
    /\ InitDb
    /\ run = [r \in RunIds |-> IdleRun]
    /\ imp = StartImp
    /\ \E extractedPanels \in PanelDataLists :
          pure = [extractedPanels |-> extractedPanels, k |-> 0,
                  combinedData |-> [key \in MergeKeys |-> Absent]]

\* One call of the reducer.
ReducePanel ==
    /\ pure.k < Len(pure.extractedPanels)
    /\ pure' = [pure EXCEPT !.k = @ + 1,
                            !.combinedData = merged(@, pure.extractedPanels[pure.k + 1])]
    /\ UNCHANGED <<db, nextId, run, imp>>

SpecMerge == InitMerge /\ [][ReducePanel]_vars

\* The values the first n panels have for a key, in panel order.
RECURSIVE ValuesOf(_, _, _)
ValuesOf(panels, key, n) ==
    IF n = 0 THEN <<>>
    ELSE IF panels[n][key].kind = "absent" THEN ValuesOf(panels, key, n - 1)
    ELSE Append(ValuesOf(panels, key, n - 1), panels[n][key])

RECURSIVE ConcatArrays(_)
ConcatArrays(values) ==
    IF values = <<>> THEN <<>>
    ELSE IF Head(values).kind = "array" THEN Head(values).items \o ConcatArrays(Tail(values))
    ELSE ConcatArrays(Tail(values))

RECURSIVE ConcatTexts(_)
ConcatTexts(values) ==
    IF Len(values) = 1 THEN templateText(values[1])
    ELSE templateText(Head(values)) \o <<" ">> \o ConcatTexts(Tail(values))

\* The combined value the claim gives a key that has these values.
ClaimedValue(key, values) ==
    IF values = <<>> THEN Absent
    ELSE IF Len(values) = 1 THEN values[1]
    ELSE IF key = "rawText" THEN Str(ConcatTexts(values))
    ELSE IF \E i \in 1..Len(values) : values[i].kind = "array" THEN Arr(ConcatArrays(values))
    ELSE values[Len(values)]

\* C20: after the fold over the panels, each key of the combined record has
\* the concatenation of its array values in panel order, rawText the
\* concatenation of its values with a separator, any other key the value of
\* the last panel that has it, and a key of one panel only that panel's value.
C20_PanelMerge ==
    pure.k >= 1 =>
        \A key \in MergeKeys :
            pure.combinedData[key] = ClaimedValue(key, ValuesOf(pure.extractedPanels, key, pure.k))


(***************************************************************************)
(* Properties of the verdicts and of the rows written for them.            *)
(***************************************************************************)
\* The verdicts of a run carry the details of the rule their ruleId names.
Enriched(req) ==
    \A k \in 1..Len(req.results) :
        LET v == req.results[k]
        IN  RuleMapHas(req.rules, v.ruleId) =>
               /\ v.ruleName = RuleMapGet(req.rules, v.ruleId).name
               /\ v.ruleDescription = RuleMapGet(req.rules, v.ruleId).description
               /\ v.ruleCategory = RuleMapGet(req.rules, v.ruleId).category

\* The rows this step inserts for generated rules.
NewGeneratedRows == {x \in check_results' \ check_results : x.is_generated_rule}

\* The verdict the save loop of request r is at.
NextVerdict(r) == run[r].results[run[r].inserted + 1]

C21_StepAsClaimed ==
    \A r \in RunIds : \A x \in NewGeneratedRows :
        /\ run[r].pc = "persist" /\ run[r].inserted < Len(run[r].results)
        /\ \E k \in 1..Len(run[r].rules) :
              /\ run[r].rules[k].id = NextVerdict(r).ruleId
              /\ x.generated_rule_name = run[r].rules[k].name
              /\ x.generated_rule_category = run[r].rules[k].category

\* C21, as claimed: every verdict carries the details of the input rule with
\* its ruleId, so every row written for a generated rule stores the name and
\* category of a rule of the resolved list.
C21_VerdictEnrichment ==
    /\ [] (\A r \in RunIds : run[r].pc = "persist" => Enriched(run[r]))
    /\ [][C21_StepAsClaimed]_vars

C21_Step ==
    \A r \in RunIds : \A x \in NewGeneratedRows :
        /\ run[r].pc = "persist" /\ run[r].inserted < Len(run[r].results)
        /\ IF RuleMapHas(run[r].rules, NextVerdict(r).ruleId)
           THEN LET rule == RuleMapGet(run[r].rules, NextVerdict(r).ruleId)
                IN  /\ x.generated_rule_name = rule.name
                    /\ x.generated_rule_description = rule.description
                    /\ x.generated_rule_category = rule.category
           ELSE /\ x.generated_rule_name = OrElse(NextVerdict(r).ruleName, "Unknown Rule")
                /\ x.generated_rule_category = OrElse(NextVerdict(r).ruleCategory, "General")

\* C21, amended: a verdict whose ruleId is the id of an input rule carries
\* that rule's name, description and category, and its row on the
\* generated-rule path stores them; a verdict whose ruleId names no input
\* rule is left as the model gave it, and its row stores the model's ruleName
\* or "Unknown Rule" and the model's ruleCategory or "General".
C21_VerdictEnrichmentOfKnownRules ==
    /\ [] (\A r \in RunIds : run[r].pc = "persist" => Enriched(run[r]))
    /\ [][C21_Step]_vars

\* Two rows of generated rules have been written, one with the name of a
\* generated rule and one for a verdict that names no rule of the list.
C21_Witness ==
    \E x, y \in check_results :
        /\ x.is_generated_rule /\ x.generated_rule_name = "Generated rule"
        /\ y.is_generated_rule /\ y.generated_rule_name = "Unknown Rule"


\* Request r holds a verdict list with a status that is not one of the three.
HasMalformedVerdict(r) ==
    /\ run[r].pc = "persist"
    /\ \E k \in 1..Len(run[r].results) : run[r].results[k].status \notin Statuses

C22_Inv ==
    /\ \A x \in check_results : x.status \in Statuses
    /\ \A r \in RunIds :
          (run[r].pc = "done" /\ run[r].status = 200) =>
              \A k \in 1..Len(run[r].results) : run[r].results[k].status \in Statuses

C22_Step ==
    \A r \in RunIds :
        /\ (run[r].pc = "evaluate" /\ run'[r].pc # "evaluate") =>
              run'[r].pc \in {"persist", "cleanup"}
        /\ (run[r].pc = "persist" /\ run[r].inserted < Len(run[r].results) /\
            NextVerdict(r).status \notin Statuses /\ run'[r] # run[r]) =>
              (run'[r].pc = "cleanup" /\ UNCHANGED db)

\* C22, as claimed: a run whose evaluation response is malformed fails and
\* its check is rolled back; no result row has a status outside pass,
\* warning, fail.
C22_MalformedResponseRollsBack ==
    /\ [] C22_Inv
    /\ [][C22_Step]_vars
    /\ \A r \in RunIds : HasMalformedVerdict(r) ~> CheckGone(run[r].checkId)

\* C22, amended: such a run fails with 500 and is never completed; its check
\* is rolled back when the DELETE of the catch block goes through, and stays
\* (incomplete, with the rows already written) when that DELETE throws.
C22_MalformedResponseFails ==
    /\ [] C22_Inv
    /\ [][C22_Step]_vars
    /\ \A r \in RunIds :
          HasMalformedVerdict(r) ~>
             (run[r].pc = "done" /\ run[r].status = 500 /\
              (run[r].deleteFailed \/ CheckGone(run[r].checkId)))

\* The save loop wrote the row of a first verdict and failed at the second,
\* whose status is not one of the three.
C22_Witness ==
    /\ run[1].pc = "cleanup" /\ run[1].inserted = 1 /\ Len(run[1].results) = 2
    /\ run[1].results[2].status \notin Statuses
    /\ \E x \in check_results : x.compliance_check_id = run[1].checkId


(***************************************************************************)
(* lib/gemini.ts, extractLabelData: from the response of the model to the  *)
(* value returned.  The text of the response is missing, not JSON, or a    *)
(* JSON value: an array, or an object with some keys.                      *)
(***************************************************************************)
MandatoryFields == {"rawText", "extractionConfidence", "flaggedForReview"}
ExtractionKeys == MandatoryFields \cup {"reviewReasons", "thcContent"}

NoText == [kind |-> "none", keys |-> {}]
ExtractionTexts ==
    {NoText, [kind |-> "invalid", keys |-> {}], [kind |-> "array", keys |-> {}]}
      \cup {[kind |-> "object", keys |-> keys] : keys \in SUBSET ExtractionKeys}
ExtractionResponses == [ok : BOOLEAN, text : ExtractionTexts]

\* The outcome of extractLabelData for a response: it throws, or returns the
\* value JSON.parse gives.
extractLabelData(response) ==
    IF ~ response.ok THEN [threw |-> TRUE, value |-> NoText]
    ELSE IF response.text.kind = "none" THEN [threw |-> TRUE, value |-> NoText]
    ELSE IF response.text.kind = "invalid" THEN [threw |-> TRUE, value |-> NoText]
    ELSE [threw |-> FALSE, value |-> response.text]

InitExtract ==
    /\ InitDb
    /\ run = [r \in RunIds |-> IdleRun]
    /\ imp = StartImp
    /\ \E response \in ExtractionResponses :
          pure = [response |-> response, done |-> FALSE, threw |-> FALSE,
                  extracted_data |-> NoText]

\* One turn of the extraction loop for this response: the call, and the
\* UPDATE of extracted_data if it returned.
ApplyExtractLabelData ==
    /\ ~ pure.done
    /\ pure' = [pure EXCEPT !.done = TRUE,
                            !.threw = extractLabelData(pure.response).threw,
                            !.extracted_data = extractLabelData(pure.response).value]
    /\ UNCHANGED <<db, nextId, run, imp>>

SpecExtract == InitExtract /\ [][ApplyExtractLabelData]_vars

\* The response is a JSON object with the mandatory fields.
MatchesSchema(response) ==
    /\ response.ok
    /\ response.text.kind = "object"
    /\ MandatoryFields \subseteq response.text.keys

\* C23: a response that does not parse as the declared schema, a JSON value
\* without the mandatory fields included, makes extractLabelData throw, and
\* nothing is stored as extracted_data.
C23_SchemaRejection ==
    (pure.done /\ ~ MatchesSchema(pure.response)) =>
        (pure.threw /\ pure.extracted_data = NoText)


C24_Inv ==
    (imp.pc = "done" /\ imp.status # 200) =>
        (imp.added = 0 /\ imp.updated = 0 /\ imp.skipped = 0 /\ imp.total = 0)

C24_Step ==
    /\ (imp.pc = "apply" /\ imp'.pc = "done" /\ imp'.status = 500) =>
          /\ UNCHANGED <<compliance_rules, nextId>>
          /\ imp'.writes = imp.writes
    /\ (imp.pc = "done" /\ imp' # imp) =>
          (imp'.runs = imp.runs + 1 /\ UNCHANGED <<compliance_rules, nextId>>)

\* C24: when the write for a candidate throws, the request ends with 500 and
\* no counts; the step leaves every rule row as it is, the rows written for
\* the candidates before it included, and the request processes no further
\* candidate.
C24_NonAtomicImport == [] C24_Inv /\ [][C24_Step]_vars

\* An import inserted the rule of its first candidate, failed at a later
\* one and answered 500; the inserted rule is there.
C24_Witness ==
    /\ imp.pc = "done" /\ imp.status = 500 /\ imp.outcome = "rules" /\ imp.writes >= 1
    /\ \E r \in compliance_rules : r.rule_set_id = imp.id /\ r.generation_status = "new"


(***************************************************************************)
(* Two analyze requests for the same check, one after the other or at the  *)
(* same time, beside DELETE /api/checks/{id}.  The store is as a           *)
(* CreateRuleSet, an AddRule, a CreateCheck and an UploadPanel of the      *)
(* admin leave it, so both requests use the stored rule.                   *)
(***************************************************************************)
TwoRunIds == {1, 2}

InitTwoRuns ==
    /\ rule_sets = {[id |-> 1, user_id |-> "u1"]}
    /\ compliance_rules = {ManualRule(1, 1)}
    /\ nextId = [rule_set |-> 1, rule |-> 1, check |-> 1, panel |-> 1,
                 result |-> 0, generated |-> 0]
    /\ compliance_checks = {NewCheckRow(1, "u1", 1)}
    /\ panel_uploads = {[id |-> 1, compliance_check_id |-> 1, extracted_data |-> NULL]}
    /\ check_results = {}
    /\ run = [r \in TwoRunIds |-> IdleRun]
    /\ imp = StartImp
    /\ pure = NULL

\* Mutant of ClientCleanup: a DELETE that finds no check replaces the outcome
\* of the failed analysis.
ClientCleanupReporting(r, caller) ==
    /\ run[r].pc = "done"
    /\ run[r].status # 200
    /\ run[r].checkId # NoId
    /\ run[r].clientDelete = 0
    /\ IF \E c \in compliance_checks : c.id = run[r].checkId /\ c.user_id = caller
       THEN /\ compliance_checks' = ChecksAfterDelete({run[r].checkId})
            /\ panel_uploads' = PanelsAfterCheckDelete({run[r].checkId})
            /\ check_results' = ResultsAfterCheckDelete({run[r].checkId})
            /\ run' = [run EXCEPT ![r].clientDelete = 200]
       ELSE /\ UNCHANGED <<compliance_checks, panel_uploads, check_results>>
            /\ run' = [run EXCEPT ![r].clientDelete = 404, ![r].status = 404]
    /\ UNCHANGED <<rule_sets, compliance_rules, nextId, imp, pure>>

\* runAnalysis in the browser, catch block: the analyze response was not ok,
\* so the page sends DELETE /api/checks/{checkId} with the user's session and
\* goes on whatever the answer is (the response is not read).  The route
\* answers 404 when its DELETE ... RETURNING id gave no row.
ClientCleanup(r, caller) ==
    /\ run[r].pc = "done"
    /\ run[r].status # 200
    /\ run[r].checkId # NoId
    /\ run[r].clientDelete = 0
    /\ IF \E c \in compliance_checks : c.id = run[r].checkId /\ c.user_id = caller
       THEN /\ compliance_checks' = ChecksAfterDelete({run[r].checkId})
            /\ panel_uploads' = PanelsAfterCheckDelete({run[r].checkId})
            /\ check_results' = ResultsAfterCheckDelete({run[r].checkId})
            /\ run' = [run EXCEPT ![r].clientDelete = 200]
       ELSE /\ UNCHANGED <<compliance_checks, panel_uploads, check_results>>
            /\ run' = [run EXCEPT ![r].clientDelete = 404]
    /\ UNCHANGED <<rule_sets, compliance_rules, nextId, imp, pure>>

NextTwoRuns ==
    \/ \E r \in TwoRunIds : Analyze(r)
    \/ \E r \in TwoRunIds, caller \in Users : ClientCleanup(r, caller)
    \/ \E caller \in Users, id \in 1..MaxChecks : DeleteCheck(caller, id)

SpecTwoRuns == InitTwoRuns /\ [][NextTwoRuns]_vars


ResultsOf(checkId) == {x \in check_results : x.compliance_check_id = checkId}

Succeeded(r) == run[r].pc = "done" /\ run[r].status = 200

\* After two successful runs of a check that is still there.
C25_Inv ==
    \A c \in compliance_checks :
        (\A r \in TwoRunIds : Succeeded(r) /\ run[r].checkId = c.id) =>
            /\ Cardinality(ResultsOf(c.id)) = Len(run[1].results) + Len(run[2].results)
            /\ \E r \in TwoRunIds :
                  /\ c.completed_at = Now(r)
                  /\ c.overall_status = run[r].summary.overallStatus
                  /\ c.pass_count = run[r].summary.passCount
                  /\ c.warning_count = run[r].summary.warningCount
                  /\ c.fail_count = run[r].summary.failCount

C25_Step ==
    \A r \in TwoRunIds :
        /\ \A caller \in Users, checkId \in 1..MaxChecks :
              (AnalyzeBegin(r, caller, checkId) /\
               \E c \in compliance_checks :
                   c.id = checkId /\ c.user_id = caller /\ c.completed_at # NoTime) =>
                  run'[r].pc = "panels"
        /\ run'[r].inserted = run[r].inserted + 1 =>
              (check_results \subseteq check_results' /\
               Cardinality(check_results') = Cardinality(check_results) + 1)
        /\ (run[r].pc = "persist" /\ Succeeded(r)') =>
              /\ UNCHANGED check_results
              /\ \A c \in compliance_checks' :
                    c.id = run[r].checkId =>
                       (c.completed_at = Now(r) /\
                        c.overall_status = run[r].summary.overallStatus /\
                        c.pass_count = run[r].summary.passCount /\
                        c.warning_count = run[r].summary.warningCount /\
                        c.fail_count = run[r].summary.failCount)

\* C25: a run on a completed check is accepted; each turn of its save loop
\* adds a row and removes none, its summary UPDATE overwrites the status, the
\* counters and completed_at, and after two successful runs the check has
\* as many result rows as both runs had verdicts, with the counters of the
\* run that wrote last.
C25_RerunAccumulates == [] C25_Inv /\ [][C25_Step]_vars

\* The first run wrote two "fail" rows, the second, started after the first
\* had completed the check, one "pass" row; the check has three rows and says
\* pass, 1, 0, 0.
C25_Witness ==
    /\ \A r \in TwoRunIds : Succeeded(r)
    /\ Len(run[1].results) = 2 /\ Len(run[2].results) = 1
    /\ run[1].summary.failCount = 2 /\ run[2].summary.passCount = 1
    /\ \E c \in compliance_checks :
          /\ c.id = 1 /\ c.completed_at = Now(2)
          /\ c.overall_status = "pass" /\ c.pass_count = 1 /\ c.fail_count = 0
          /\ Cardinality(ResultsOf(c.id)) = 3


CheckAbsent(checkId) == ~ \E c \in compliance_checks : c.id = checkId

C26_Step ==
    \A r \in TwoRunIds :
        /\ (AnalyzeCleanup(r) /\ CheckAbsent(run[r].checkId)) =>
              /\ UNCHANGED <<db, nextId>>
              /\ run'[r].pc = "done" /\ run'[r].status = 500
        /\ \A caller \in Users :
              (ClientCleanup(r, caller) /\ CheckAbsent(run[r].checkId)) =>
                  /\ UNCHANGED <<db, nextId>>
                  /\ run'[r].clientDelete = 404
                  /\ run'[r].status = run[r].status

\* C26: a delete of a check that is no longer there changes no row and leaves
\* the failing run's outcome as it was: the catch block of the analyze route
\* still answers 500, and the page's own DELETE, answered 404, leaves the
\* failed analysis as reported.
C26_ReentrantCleanup == [][C26_Step]_vars

\* Both requests failed and both catch blocks ran their DELETE without an
\* error, so the later one found no check; the page of request 1 then sent
\* its DELETE and got 404.
C26_Witness ==
    /\ \A r \in TwoRunIds :
          run[r].pc = "done" /\ run[r].status = 500 /\ ~ run[r].deleteFailed
    /\ run[1].clientDelete = 404
    /\ compliance_checks = {}


C27_Inv ==
    (imp.pc = "done" /\ imp.outcome = "not retryable") =>
        /\ imp.status = 500
        /\ imp.writes = 0
        /\ imp.added = 0 /\ imp.updated = 0 /\ imp.skipped = 0

C27_Step ==
    /\ \A errorCode \in ErrorCodes \ RetryableCodes :
          (imp.pc = "fetch" /\ imp' = FetchThrew(errorCode)) =>
              /\ imp'.pc = "done" /\ imp'.status = 500
              /\ imp'.outcome = "not retryable"
              /\ UNCHANGED <<db, nextId>>
    /\ (imp.pc = "fetch" /\ imp'.pc = "fetch" /\ imp' # imp) =>
          /\ imp'.attempt = imp.attempt + 1
          /\ imp.attempt < maxRetries - 1
          /\ \E errorCode \in RetryableCodes : imp' = FetchThrew(errorCode)
    /\ (imp' # imp /\ imp'.outcome = "not retryable") =>
          (imp.pc = "fetch" /\ imp'.pc = "done")

\* C27: the importer's fetch is called again only after a call that threw an
\* error with one of the six codes, and not after the third call; a call that
\* throws any other error is the last call of the request: there is no wait,
\* the request ends in that step with 500, and it has inserted or updated no
\* rule.
C27_RetryOnlyTransient == [] C27_Inv /\ [][C27_Step]_vars

\* After an import that wrote rules, the fetch call of a second one threw an
\* error that is not retryable: 500 and no write.
C27_Witness ==
    /\ imp.pc = "done" /\ imp.status = 500 /\ imp.outcome = "not retryable"
    /\ imp.runs = 2 /\ imp.writes = 0 /\ compliance_rules # {}


C28_Step ==
    \A r \in TwoRunIds :
        (run[r].pc # "done" /\ Succeeded(r)') =>
            \E c \in compliance_checks' :
                /\ c.id = run'[r].checkId
                /\ c.completed_at # NoTime
                /\ c.overall_status # NULL
                /\ Cardinality({x \in check_results' : x.compliance_check_id = c.id})
                      >= Len(run'[r].results)

\* C28: in the step in which a request is answered with success, the check
\* exists, has completed_at and overall_status set, and has at least the
\* result rows of that request, whatever a DELETE of the check or a second
\* request on the same check did in between.
C28_SuccessImpliesCompleted == [][C28_Step]_vars


FailedRerun(r) == run[r].pc = "done" /\ run[r].status = 500 /\ run[r].completedBefore

\* C29, as claimed: once a request that began on a completed check and failed
\* inside the try block has returned, the check, its panels and all its
\* results, those of the earlier run included, are gone.
C29_FailedRerunRemovesCompleted ==
    \A r \in TwoRunIds : FailedRerun(r) => CheckGone(run[r].checkId)

C29_Step ==
    \A r \in TwoRunIds :
        (run[r].pc = "cleanup" /\ run'[r].pc = "done") =>
            /\ run'[r].status = 500
            /\ run'[r].deleteFailed => UNCHANGED <<db, nextId>>
            /\ ~ run'[r].deleteFailed => CheckGone(run[r].checkId)'

\* C29, amended: the catch block's DELETE is the same whether or not the
\* check was completed; once such a request has returned, the check, its
\* panels and all its results are gone unless that DELETE threw, in which
\* case the step changed no row.
C29_FailedRerunRemovesCompletedUnlessDeleteThrew ==
    /\ [] (\A r \in TwoRunIds :
              (FailedRerun(r) /\ ~ run[r].deleteFailed) => CheckGone(run[r].checkId))
    /\ [][C29_Step]_vars

\* Request 1 completed the check with one result; request 2, begun on the
\* completed check, inserted a result and then failed; its DELETE went
\* through and nothing of the check is left.
C29_Witness ==
    /\ Succeeded(1) /\ Len(run[1].results) = 1 /\ ~ run[1].completedBefore
    /\ FailedRerun(2) /\ ~ run[2].deleteFailed /\ run[2].inserted = 1
    /\ CheckGone(1)


(***************************************************************************)
(* Two import requests for one rule set.  The server runs one handler at a *)
(* time and may go from one request to another at every await: imp is the  *)
(* request whose handler is running, pure the one that is waiting.         *)
(***************************************************************************)
InitTwoImports ==
    /\ rule_sets = {[id |-> 1, user_id |-> "u1"]}
    /\ compliance_rules = {}
    /\ compliance_checks = {}
    /\ panel_uploads = {}
    /\ check_results = {}
    /\ nextId = [rule_set |-> 1, rule |-> 0, check |-> 0, panel |-> 0,
                 result |-> 0, generated |-> 0]
    /\ run = [r \in RunIds |-> IdleRun]
    /\ imp = StartImp
    /\ pure = StartImp

\* An await of the running handler is reached, or it has returned, and the
\* other request goes on.
SwitchRequest ==
    /\ imp' = pure
    /\ pure' = imp
    /\ UNCHANGED <<db, nextId, run>>

\* Each of the two requests is made once.
NextTwoImports ==
    \/ imp.runs = 0 /\ ImportBegin("u1", 1)
    \/ ImportExisting
    \/ ImportFetch
    \/ ImportApply
    \/ SwitchRequest

SpecTwoImports == InitTwoImports /\ [][NextTwoImports]_vars

SnapshotMatch(req) ==
    \E r \in req.existingRules :
        r.source_citation = req.data.rules[req.k].rule_text_citation

\* A step of the running request (not a change of request).
C30_Step ==
    (imp' # imp /\ pure' = pure) =>
        /\ (imp.pc \in {"fetch", "apply"} /\ imp'.pc \in {"fetch", "apply"}) =>
              imp'.existingRules = imp.existingRules
        /\ (imp.pc = "apply" /\ imp.data.rules[imp.k].status = "updated") =>
              IF SnapshotMatch(imp)
              THEN /\ imp'.added = imp.added \/ imp'.pc = "done"
                   /\ UNCHANGED nextId
                   /\ Cardinality(compliance_rules') = Cardinality(compliance_rules)
              ELSE /\ imp'.updated = imp.updated \/ imp'.pc = "done"
                   /\ \/ imp' = ImportReturned(imp, 500) /\ UNCHANGED <<db, nextId>>
                      \/ /\ imp'.writes = imp.writes + 1
                         /\ compliance_rules' = compliance_rules \cup
                               {ImportedRule(nextId.rule + 1, imp.id, imp.data.rules[imp.k])}
                         /\ Cardinality(compliance_rules') = Cardinality(compliance_rules) + 1

\* C30: the rules read before the fetch are the only ones an `updated`
\* candidate is compared with, and they are not read again: a candidate whose
\* citation none of them has is inserted as a row of its own (or the request
\* fails), also when the rule set meanwhile has a rule with that citation,
\* inserted earlier by this request or by another one.
C30_SnapshotMatching == [][C30_Step]_vars

\* Two overlapping requests each got one `updated` candidate with the same
\* citation, unknown to both snapshots, and each inserted a row for it.
C30_Witness ==
    /\ imp.pc = "done" /\ imp.status = 200 /\ imp.added = 1 /\ imp.runs = 1
    /\ pure.pc = "done" /\ pure.status = 200 /\ pure.added = 1 /\ pure.runs = 1
    /\ Len(imp.last.rules) = 1 /\ imp.last.rules[1].status = "updated"
    /\ Len(pure.last.rules) = 1 /\ pure.last.rules[1].status = "updated"
    /\ imp.last.rules[1].rule_text_citation = pure.last.rules[1].rule_text_citation
    /\ Cardinality(compliance_rules) = 2
    /\ \A r \in compliance_rules :
          r.rule_set_id = 1 /\ r.source_citation = imp.last.rules[1].rule_text_citation

====
